---- MODULE Spec2Model ----
(***************************************************************************)
(* Model of the contract analyser: the clause segmenter                    *)
(* (app/utils/clauses.py), the model response parser and retrying client   *)
(* (app/llm/groq_client.py) and the per-clause orchestrator                *)
(* (app/analyzer/analyze_document.py).                                     *)
(*                                                                         *)
(* A text is a sequence of characters, each a one-character string (the   *)
(* backtick is the string Backtick).                                       *)
(***************************************************************************)
EXTENDS Integers, Sequences, FiniteSets, TLC

VARIABLES
    text,       \* split_into_clauses: the argument `text`
    min_len,    \* split_into_clauses: the argument `min_len`
    max_len,    \* split_into_clauses: the argument `max_len`
    seg_pc,     \* split_into_clauses: position in the function body
    norm,       \* split_into_clauses: `text` after _normalize_whitespace
    parts,      \* split_into_clauses: the parts not yet processed
    chunks,     \* split_into_clauses: the chunks of the current part not yet processed
    clauses,    \* split_into_clauses: the list `clauses`
    cid,        \* split_into_clauses: the counter `cid`
    p_pre,      \* _parse_json_strict: what the input text has before its body
    p_body,     \* _parse_json_strict: the body of the input text
    p_post,     \* _parse_json_strict: what the input text has after its body
    p_pc,       \* _parse_json_strict: "call" before the call, "done" after it
    p_ret,      \* _parse_json_strict: the value returned
    an_doc,         \* analyze_document_text: the argument `text`
    an_max_clauses, \* analyze_document_text: the argument `max_clauses`, <<>> for None, <<n>> for n
    an_key_set,     \* whether GROQ_API_KEY is set
    an_pc,          \* analyze_document_text: position in the function body
    an_split,       \* analyze_document_text: the list split_into_clauses returned
    an_clauses,     \* analyze_document_text: `clauses` after the max_clauses cut
    an_idx,         \* analyze_document_text: index in an_clauses of the current clause
    an_attempt,     \* call_groq_chat: the loop variable `attempt` (0 outside the call)
    an_slept,       \* call_groq_chat: the arguments of time.sleep during the current call
    an_parsed,      \* analyze_document_text: `parsed` for the current clause
    an_error,       \* analyze_document_text: whether trace_entry has the key "error"
    an_results,     \* analyze_document_text: the list `results`
    an_trace,       \* the records in TRACE_FILE
    an_calls,       \* history: for each clause analysed, how call_groq_chat ended
    an_writes,      \* history: for each result, whether its trace record was written
    an_trace0,      \* the records TRACE_FILE held before the run
    an_chroma,      \* CHROMA_AVAILABLE
    an_collection,  \* analyze_document_text: `collection`
    nz_text,        \* _normalize_whitespace: the argument s
    nz_once,        \* _normalize_whitespace(s)
    nz_twice,       \* _normalize_whitespace(_normalize_whitespace(s))
    nz_pc,          \* how many times _normalize_whitespace has been applied
    pr_clause,      \* _query_precedents, _fallback_precedents: clause_text
    pr_top_k,       \* _query_precedents, _fallback_precedents: top_k
    pr_corpus,      \* data/precedents.json
    pr_chroma,      \* CHROMA_AVAILABLE
    pr_collection,  \* analyze_document_text: `collection`
    pr_store,       \* what collection.query did, if it was called
    pr_pc,          \* position in the resolver's run
    pr_ret,         \* what _query_precedents gave
    pr_fb1,         \* what a first call of _fallback_precedents gave
    pr_fb2,         \* what a second call of _fallback_precedents gave
    em_to,          \* send_email: to_email
    em_key,         \* send_email: whether resend_api_key (argument or RESEND_API_KEY) is set
    em_from,        \* send_email: from_email (argument or RESEND_FROM_EMAIL)
    em_owner,       \* RESEND_OWNER_EMAIL
    em_smtp,        \* send_email: which of smtp_host, smtp_port, smtp_user, smtp_pass are set
    em_pc,          \* send_email: position in the function body
    em_resend_exc,  \* send_email: the exception `e` caught at line 184
    em_exc,         \* the exception that leaves send_email
    em_used,        \* send_email: the key "used" of the dict returned
    st_page,        \* streamlit_app: the sidebar radio `page`
    st_file,        \* streamlit_app: the file held by st.file_uploader (0 for none)
    st_tmp,         \* how many temporary files the script has created
    st_path,        \* st.session_state["uploaded_path"]
    st_text,        \* st.session_state["extracted_text"]
    st_results,     \* st.session_state["analysis_results"]
    st_selected,    \* st.session_state["selected_for_email"]
    st_last,        \* st.session_state["last_analyzed_path"] (0 when the key is absent)
    st_status,      \* st.session_state["status"]
    st_rendered,    \* the clause ids whose checkbox the last run rendered
    st_checked,     \* the clause ids whose checkbox is ticked
    st_analyzed,    \* history: whether the last run invoked analyze_document_text
    st_reset,       \* history: whether the last run executed line 104
    wf_queue0,      \* clause_analysis_graph: state["clauses"] as initial_state built it
    wf_clauses,     \* clause_analysis_graph: state["clauses"]
    wf_results,     \* clause_analysis_graph: state["results"]
    wf_trace,       \* the records the workflow wrote to TRACE_FILE
    wf_key_set,     \* whether GROQ_API_KEY is set
    wf_chroma,      \* whether chromadb can be imported
    wf_pc           \* clause_analysis_graph: the node about to run

seg_vars == <<text, min_len, max_len, seg_pc, norm, parts, chunks, clauses, cid>>
p_vars == <<p_pre, p_body, p_post, p_pc, p_ret>>

an_vars == <<an_doc, an_max_clauses, an_key_set, an_pc, an_split, an_clauses, an_idx,
             an_attempt, an_slept, an_parsed, an_error, an_results, an_trace, an_calls,
             an_writes, an_trace0, an_chroma, an_collection>>

nz_vars == <<nz_text, nz_once, nz_twice, nz_pc>>

pr_vars == <<pr_clause, pr_top_k, pr_corpus, pr_chroma, pr_collection, pr_store, pr_pc,
             pr_ret, pr_fb1, pr_fb2>>

em_vars == <<em_to, em_key, em_from, em_owner, em_smtp, em_pc, em_resend_exc, em_exc, em_used>>

st_vars == <<st_page, st_file, st_tmp, st_path, st_text, st_results, st_selected, st_last,
             st_status, st_rendered, st_checked, st_analyzed, st_reset>>

wf_vars == <<wf_queue0, wf_clauses, wf_results, wf_trace, wf_key_set, wf_chroma, wf_pc>>

\* the state of send_email, of the dashboard and of the clause workflow
outer_vars == <<em_vars, st_vars, wf_vars>>

vars == <<seg_vars, p_vars, an_vars, nz_vars, pr_vars, outer_vars>>

----------------------------------------------------------------------------
(* Bounds of the model *)

\* most pieces an input document is made of
MaxPieces == 4
\* most clauses the workflow's queue starts with
MaxFlowClauses == 2
\* how many different files the user has to upload
MaxFiles == 2
\* most temporary files the dashboard creates
MaxUploads == 3
\* most results an analysis of the dashboard returns
MaxResults == 2
\* largest min_len tried
MaxMinLen == 2
\* largest max_len tried
MaxMaxLen == 4
\* most tokens the body of a model response is made of
MaxJsonTokens == 4
\* most pieces an analysed document is made of
MaxDocPieces == 2
\* largest max_clauses tried
MaxMaxClauses == 1
\* _normalize_whitespace is tried on strings of at most this many pieces
MaxNormPieces == 5
\* most pieces a clause text given to the resolver is made of
MaxClausePieces == 2
\* most references in the corpus
MaxRefs == 2
\* largest top_k tried
MaxTopK == 2
\* most pieces a document of heading lines is made of
MaxHeadPieces == 3
\* the last block of the long-section example is tried with up to this many
\* characters more than 3000
MaxExampleExtra == 9

----------------------------------------------------------------------------
(* Program constants *)

DEFAULT_MIN_LEN == 40
DEFAULT_MAX_LEN == 2000
MAX_RETRIES == 2
DEFAULT_TOP_K == 3

----------------------------------------------------------------------------
(* Characters and generic helpers *)

Whitespace == {" ", "\n", "\t", "\r", "\f"}
Upper == {"A","B","C","D","E","F","G","H","I","J","K","L","M",
          "N","O","P","Q","R","S","T","U","V","W","X","Y","Z"}
Lower == {"a","b","c","d","e","f","g","h","i","j","k","l","m",
          "n","o","p","q","r","s","t","u","v","w","x","y","z"}
Digit == {"0","1","2","3","4","5","6","7","8","9"}

MinOf(S) == CHOOSE x \in S : \A y \in S : x <= y
MaxOf(S) == CHOOSE x \in S : \A y \in S : x >= y

\* s[i:j] of Python with 1-based inclusive bounds; empty when i > j
Slice(s, i, j) == IF i > j THEN <<>> ELSE SubSeq(s, i, j)

\* str.strip()
Strip(s) ==
    LET keep == {i \in 1..Len(s) : s[i] \notin Whitespace}
    IN  IF keep = {} THEN <<>> ELSE SubSeq(s, MinOf(keep), MaxOf(keep))

\* last index of the maximal run of characters of class cls that starts at i
\* (i - 1 when s[i] is not in cls)
RunEnd(s, i, cls) ==
    LET stops == {k \in i..Len(s) : s[k] \notin cls}
    IN  IF i > Len(s) THEN i - 1
        ELSE IF stops = {} THEN Len(s) ELSE MinOf(stops) - 1

\* s[i], or the empty string when i is not an index of s
CharAt(s, i) == IF i >= 1 /\ i <= Len(s) THEN s[i] ELSE ""

\* whether s has the characters of w at positions i, i+1, ...
HasAt(s, i, w) ==
    /\ i + Len(w) - 1 <= Len(s)
    /\ \A k \in 1..Len(w) : s[i + k - 1] = w[k]

RECURSIVE Concat(_)
Concat(ss) == IF ss = <<>> THEN <<>> ELSE Head(ss) \o Concat(Tail(ss))

----------------------------------------------------------------------------
(* _normalize_whitespace *)

\* re.sub(r'\r\n?', '\n', s)
RECURSIVE SubCR(_, _)
SubCR(s, i) ==
    LET hits == {k \in i..Len(s) : s[k] = "\r"}
        m    == MinOf(hits)
    IN  IF hits = {} THEN Slice(s, i, Len(s))
        ELSE Slice(s, i, m - 1) \o <<"\n">>
             \o SubCR(s, IF CharAt(s, m + 1) = "\n" THEN m + 2 ELSE m + 1)

\* re.sub(r'\n\s*\n\s*\n+', '\n\n', s): a match starts at a newline whose
\* whitespace run holds at least three newlines and, the quantifiers being
\* greedy, ends at the last newline of that run
\* the newlines of the whitespace run that starts at k
RunNewlines(s, k) == {j \in k..RunEnd(s, k, Whitespace) : s[j] = "\n"}

RECURSIVE SubBlankLines(_, _)
SubBlankLines(s, i) ==
    LET hits == {k \in i..Len(s) : s[k] = "\n" /\ Cardinality(RunNewlines(s, k)) >= 3}
        m    == MinOf(hits)
    IN  IF hits = {} THEN Slice(s, i, Len(s))
        ELSE Slice(s, i, m - 1) \o <<"\n", "\n">>
             \o SubBlankLines(s, MaxOf(RunNewlines(s, m)) + 1)

\* the substitution with the pattern [ \t]{2}: every pair of blanks becomes
\* one space
RECURSIVE SubSpaces_pairs(_, _)
SubSpaces_pairs(s, i) ==
    LET hits == {k \in i..Len(s) - 1 : s[k] \in {" ", "\t"} /\ s[k + 1] \in {" ", "\t"}}
        m    == MinOf(hits)
    IN  IF hits = {} THEN Slice(s, i, Len(s))
        ELSE Slice(s, i, m - 1) \o <<" ">> \o SubSpaces_pairs(s, m + 2)

\* re.sub(r'[ \t]{2,}', ' ', s)
RECURSIVE SubSpaces(_, _)
SubSpaces(s, i) ==
    LET hits == {k \in i..Len(s) : RunEnd(s, k, {" ", "\t"}) - k + 1 >= 2}
        m    == MinOf(hits)
    IN  IF hits = {} THEN Slice(s, i, Len(s))
        ELSE Slice(s, i, m - 1) \o <<" ">> \o SubSpaces(s, RunEnd(s, m, {" ", "\t"}) + 1)

normalize_whitespace(s) ==
    Strip(SubSpaces(SubBlankLines(SubCR(s, 1), 1), 1))

----------------------------------------------------------------------------
(* _SPLIT_RE: the four heading patterns, joined after p.strip('(?m)').     *)
(* The strip removes the characters ( ? m ) from both ends of each         *)
(* pattern, so the first pattern loses its final `?` and becomes           *)
(* ^(Section|Clause)\s+\d+[\.\: -]                                         *)

SectionWord == <<"S","e","c","t","i","o","n">>
ClauseWord == <<"C","l","a","u","s","e">>

\* ^ under re.MULTILINE
AtLineStart(s, i) == i = 1 \/ s[i - 1] = "\n"

\* ^(Section|Clause)\s+\d+[\.\: -]  -- index after the match at i, 0 if none
HeadingEndA(s, i) ==
    LET w  == IF HasAt(s, i, SectionWord) THEN Len(SectionWord)
              ELSE IF HasAt(s, i, ClauseWord) THEN Len(ClauseWord) ELSE 0
        ws == RunEnd(s, i + w, Whitespace)
        ds == RunEnd(s, ws + 1, Digit)
    IN  IF w > 0 /\ ws >= i + w /\ ds >= ws + 1
           /\ ds + 1 <= Len(s) /\ s[ds + 1] \in {".", ":", " ", "-"}
        THEN ds + 2 ELSE 0

\* ^[A-Z][A-Z\s]{4,}\n  -- the greedy run is given back to its last newline
\* that leaves at least four characters before it
HeadingEndB(s, i) ==
    IF i <= Len(s) /\ s[i] \in Upper
    THEN LET e  == RunEnd(s, i + 1, Upper \cup Whitespace)
             nl == {k \in (i + 5)..e : s[k] = "\n"}
         IN  IF nl = {} THEN 0 ELSE MaxOf(nl) + 1
    ELSE 0

\* ^\d+\.\s+[A-Z][A-Za-z\s]{3,}\n
HeadingEndC(s, i) ==
    LET ds == RunEnd(s, i, Digit)
        ws == RunEnd(s, ds + 2, Whitespace)
    IN  IF ds >= i /\ ds + 1 <= Len(s) /\ s[ds + 1] = "." /\ ws >= ds + 2
           /\ ws + 1 <= Len(s) /\ s[ws + 1] \in Upper
        THEN LET e  == RunEnd(s, ws + 2, Upper \cup Lower \cup Whitespace)
                 nl == {k \in (ws + 5)..e : s[k] = "\n"}
             IN  IF nl = {} THEN 0 ELSE MaxOf(nl) + 1
        ELSE 0

\* ^[0-9]+\.[0-9]+\s+
HeadingEndD(s, i) ==
    LET ds == RunEnd(s, i, Digit)
        fs == RunEnd(s, ds + 2, Digit)
        ws == RunEnd(s, fs + 1, Whitespace)
    IN  IF ds >= i /\ ds + 1 <= Len(s) /\ s[ds + 1] = "." /\ fs >= ds + 2 /\ ws >= fs + 1
        THEN ws + 1 ELSE 0

\* the alternation tries the patterns in order; 0 when none matches at i
HeadingEnd(s, i) ==
    IF ~AtLineStart(s, i) THEN 0
    ELSE IF HeadingEndA(s, i) > 0 THEN HeadingEndA(s, i)
    ELSE IF HeadingEndB(s, i) > 0 THEN HeadingEndB(s, i)
    ELSE IF HeadingEndC(s, i) > 0 THEN HeadingEndC(s, i)
    ELSE HeadingEndD(s, i)

\* [m.start() for m in _SPLIT_RE.finditer(s)]: the search resumes at the
\* end of each match
RECURSIVE HeadingStarts(_, _)
HeadingStarts(s, i) ==
    LET hits == {k \in i..Len(s) : HeadingEnd(s, k) > 0}
        m    == MinOf(hits)
    IN  IF hits = {} THEN <<>>
        ELSE <<m>> \o HeadingStarts(s, HeadingEnd(s, m))

----------------------------------------------------------------------------
(* Splitting into parts: split_into_clauses, lines 95-132 *)

\* [p.strip() for p in re.split(r'\n\s*\n', s) if p.strip()]: a separator
\* starts at a newline whose whitespace run holds a second newline and ends
\* at the last newline of that run
RECURSIVE SplitParagraphs(_, _)
SplitParagraphs(s, from) ==
    LET hits == {k \in from..Len(s) : s[k] = "\n" /\ Cardinality(RunNewlines(s, k)) >= 2}
        m    == MinOf(hits)
        stop == IF hits = {} THEN Len(s) ELSE m - 1
        para == Strip(Slice(s, from, stop))
    IN  (IF para = <<>> THEN <<>> ELSE <<para>>)
        \o (IF hits = {} THEN <<>> ELSE SplitParagraphs(s, MaxOf(RunNewlines(s, m)) + 1))

\* the loop over the heading matches and the final tail (lines 101-114)
RECURSIVE HeadingParts(_, _, _)
HeadingParts(s, starts, last_idx) ==
    IF starts = <<>>
    THEN IF Strip(Slice(s, last_idx, Len(s))) = <<>> THEN <<>>
         ELSE <<Strip(Slice(s, last_idx, Len(s)))>>
    ELSE (IF Head(starts) > last_idx /\ Strip(Slice(s, last_idx, Head(starts) - 1)) # <<>>
          THEN <<Strip(Slice(s, last_idx, Head(starts) - 1))>>
          ELSE <<>>)
         \o HeadingParts(s, Tail(starts), Head(starts))

\* the texts of `parts` (the offsets are only reported under debug=True)
BuildParts(s) ==
    LET matches == HeadingStarts(s, 1)
        paras   == SplitParagraphs(s, 1)
        first   == IF matches # <<>> THEN HeadingParts(s, matches, 1) ELSE paras
    IN  IF Len(first) = 1 /\ Len(paras) > 1 THEN paras ELSE first

----------------------------------------------------------------------------
(* _chunk_long_clause *)

SentenceEnd == {".", "?", "!"}

\* re.split(r'(?<=[\.\?\!])\s+', s)
RECURSIVE SplitSentences(_, _)
SplitSentences(s, from) ==
    LET hits == {k \in from..Len(s) : k > 1 /\ s[k] \in Whitespace /\ s[k - 1] \in SentenceEnd}
        m    == MinOf(hits)
    IN  IF hits = {} THEN <<Slice(s, from, Len(s))>>
        ELSE <<Slice(s, from, m - 1)>> \o SplitSentences(s, RunEnd(s, m, Whitespace) + 1)

\* " ".join(ss)
RECURSIVE JoinSpace(_)
JoinSpace(ss) ==
    IF ss = <<>> THEN <<>>
    ELSE IF Len(ss) = 1 THEN Head(ss)
    ELSE Head(ss) \o <<" ">> \o JoinSpace(Tail(ss))

\* an over-long sentence kept whole
ForceSplit_whole(s, i, n) == IF Strip(s) # <<>> THEN <<Strip(s)>> ELSE <<>>

\* the slices s[i:i+max_len].strip() of one over-long sentence, empty ones left out
RECURSIVE ForceSplit(_, _, _)
ForceSplit(s, i, n) ==
    IF i > Len(s) THEN <<>>
    ELSE LET part == Strip(Slice(s, i, IF i + n - 1 < Len(s) THEN i + n - 1 ELSE Len(s)))
         IN  (IF part # <<>> THEN <<part>> ELSE <<>>) \o ForceSplit(s, i + n, n)

\* the loop over the sentences (lines 38-60)
RECURSIVE ChunkLoop(_, _, _, _, _)
ChunkLoop(sentences, n, out, current, cur_len) ==
    IF sentences = <<>>
    THEN IF current # <<>> THEN Append(out, Strip(JoinSpace(current))) ELSE out
    ELSE LET s == Head(sentences)
             flushed == IF current # <<>> THEN Append(out, Strip(JoinSpace(current))) ELSE out
         IN  IF cur_len + Len(s) <= n
             THEN ChunkLoop(Tail(sentences), n, out, Append(current, s), cur_len + Len(s))
             ELSE IF Len(s) > n
                  THEN ChunkLoop(Tail(sentences), n, flushed \o ForceSplit(s, 1, n), <<>>, 0)
                  ELSE ChunkLoop(Tail(sentences), n, flushed, <<s>>, Len(s))

chunk_long_clause(t, n) ==
    IF Len(t) <= n
    THEN IF t # <<>> THEN <<t>> ELSE <<>>
    ELSE ChunkLoop(SplitSentences(t, 1), n, <<>>, <<>>, 0)

----------------------------------------------------------------------------
(* split_into_clauses, lines 134-169 *)

\* ClauseStep with a short chunk discarded instead of merged
ClauseStep_discard(cl, n, chunk, minl) ==
    LET c == Strip(chunk)
        too_short == Len(c) < minl
    IN  IF too_short /\ cl # <<>>
        THEN <<cl, n>>
        ELSE <<Append(cl, [id |-> n, text |-> c, length |-> Len(c), too_short |-> too_short]),
               n + 1>>

\* ClauseStep with a short chunk appended with no separator
ClauseStep_nosep(cl, n, chunk, minl) ==
    LET c == Strip(chunk)
        too_short == Len(c) < minl
        merged == cl[Len(cl)].text \o c
    IN  IF too_short /\ cl # <<>>
        THEN <<[cl EXCEPT ![Len(cl)] =
                    [@ EXCEPT !.text = merged, !.too_short = Len(merged) < minl]], n>>
        ELSE <<Append(cl, [id |-> n, text |-> c, length |-> Len(c), too_short |-> too_short]),
               n + 1>>

\* one iteration of `for c in chunks` (lines 141-163) on the list cl with
\* the counter n: the pair <<clauses, cid>> after it
ClauseStep(cl, n, chunk, minl) ==
    LET c == Strip(chunk)
        too_short == Len(c) < minl
        merged == cl[Len(cl)].text \o <<"\n", "\n">> \o c
    IN  IF too_short /\ cl # <<>>
        THEN <<[cl EXCEPT ![Len(cl)] =
                    [@ EXCEPT !.text = merged, !.too_short = Len(merged) < minl]], n>>
        ELSE <<Append(cl, [id |-> n, text |-> c, length |-> Len(c), too_short |-> too_short]),
               n + 1>>

\* the final pass dropping nothing
FinalPass_keep(cl, minl) == cl

\* the final pass (lines 166-167)
FinalPass(cl, minl) ==
    IF Len(cl) > 1
    THEN SelectSeq(cl, LAMBDA c : ~(c.too_short /\ c.length < minl))
    ELSE cl

RECURSIVE ChunksLoop(_, _, _, _)
ChunksLoop(cl, n, cs, minl) ==
    IF cs = <<>> THEN <<cl, n>>
    ELSE LET r == ClauseStep(cl, n, Head(cs), minl)
         IN  ChunksLoop(r[1], r[2], Tail(cs), minl)

RECURSIVE PartsLoop(_, _, _, _, _)
PartsLoop(cl, n, ps, minl, maxl) ==
    IF ps = <<>> THEN cl
    ELSE LET r == ChunksLoop(cl, n, chunk_long_clause(Head(ps), maxl), minl)
         IN  PartsLoop(r[1], r[2], Tail(ps), minl, maxl)

\* a value given as `text` that is not a str: None
NoneText == <<"<None>">>

\* lines 86-87: isinstance(text, str)
IsStr(t) == t # NoneText

\* split_into_clauses(t, minl, maxl) as a function of its arguments, for a str
split_into_clauses(t, minl, maxl) ==
    LET s == normalize_whitespace(t)
    IN  IF s = <<>> THEN <<>>
        ELSE FinalPass(PartsLoop(<<>>, 0, BuildParts(s), minl, maxl), minl)

----------------------------------------------------------------------------
(* json.loads, over texts without backslash escapes.                       *)
(* A JSON value is a record [kind, txt, items]: kind is "null", "true",    *)
(* "false", "number", "str", "arr" or "obj"; txt holds the characters of   *)
(* a number or a string; items holds the elements of an array or the       *)
(* members of an object, a member being [kind |-> "member", txt |-> key,   *)
(* items |-> <<value>>], kept in insertion order with the last value of a  *)
(* repeated key (a Python dict).                                           *)

V(kind, txt, items) == [kind |-> kind, txt |-> txt, items |-> items]

\* Python's None
NoneVal == V("None", <<>>, <<>>)

\* the outcome of a parse: ok is FALSE when json.JSONDecodeError is raised
Parsed(val, next) == [ok |-> TRUE, val |-> val, next |-> next]
ParseFail == [ok |-> FALSE, val |-> NoneVal, next |-> 0]

JsonWs == {" ", "\t", "\n", "\r"}
ControlChars == {"\n", "\t", "\r", "\f"}
SkipWs(s, i) == RunEnd(s, i, JsonWs) + 1

\* dict[key] = val
PutMember(members, key, val) ==
    IF \E k \in 1..Len(members) : members[k].txt = key
    THEN [k \in 1..Len(members) |->
             IF members[k].txt = key THEN V("member", key, <<val>>) ELSE members[k]]
    ELSE Append(members, V("member", key, <<val>>))

\* a string literal whose opening quote is at i: strict mode rejects control
\* characters; the texts of the model hold no backslash
JsonString(s, i) ==
    LET close == {k \in (i + 1)..Len(s) : s[k] = "\""}
    IN  IF close = {} THEN ParseFail
        ELSE LET q == MinOf(close)
             IN  IF \E k \in (i + 1)..(q - 1) : s[k] \in ControlChars \cup {"\\"}
                 THEN ParseFail
                 ELSE Parsed(V("str", Slice(s, i + 1, q - 1), <<>>), q + 1)

\* NUMBER_RE = (-?(?:0|[1-9]\d*))(\.\d+)?([eE][-+]?\d+)?  -- the longest match at i
JsonNumber(s, i) ==
    LET j      == IF CharAt(s, i) = "-" THEN i + 1 ELSE i
        intEnd == IF CharAt(s, j) = "0" THEN j
                  ELSE IF CharAt(s, j) \in Digit THEN RunEnd(s, j, Digit) ELSE 0
        fracEnd == IF CharAt(s, intEnd + 1) = "." /\ RunEnd(s, intEnd + 2, Digit) >= intEnd + 2
                   THEN RunEnd(s, intEnd + 2, Digit) ELSE intEnd
        k      == IF CharAt(s, fracEnd + 2) \in {"-", "+"} THEN fracEnd + 3 ELSE fracEnd + 2
        expEnd == IF CharAt(s, fracEnd + 1) \in {"e", "E"} /\ RunEnd(s, k, Digit) >= k
                  THEN RunEnd(s, k, Digit) ELSE fracEnd
    IN  IF intEnd = 0 THEN ParseFail
        ELSE Parsed(V("number", Slice(s, i, expEnd), <<>>), expEnd + 1)

Word_null == <<"n","u","l","l">>
Word_true == <<"t","r","u","e">>
Word_false == <<"f","a","l","s","e">>
Word_NaN == <<"N","a","N">>
Word_Infinity == <<"I","n","f","i","n","i","t","y">>
Word_NegInfinity == <<"-","I","n","f","i","n","i","t","y">>

RECURSIVE JsonValue(_, _)
RECURSIVE JsonMembers(_, _, _)
RECURSIVE JsonElements(_, _, _)

\* the members of an object from the key whose opening quote is expected at i
JsonMembers(s, i, acc) ==
    IF CharAt(s, i) # "\"" THEN ParseFail
    ELSE LET key == JsonString(s, i)
             c   == SkipWs(s, key.next)
             val == JsonValue(s, SkipWs(s, c + 1))
             e   == SkipWs(s, val.next)
         IN  IF ~key.ok \/ CharAt(s, c) # ":" THEN ParseFail
             ELSE IF ~val.ok THEN ParseFail
             ELSE IF CharAt(s, e) = "}"
                  THEN Parsed(V("obj", <<>>, PutMember(acc, key.val.txt, val.val)), e + 1)
             ELSE IF CharAt(s, e) = ","
                  THEN JsonMembers(s, SkipWs(s, e + 1), PutMember(acc, key.val.txt, val.val))
             ELSE ParseFail

\* the elements of an array from the value expected at i
JsonElements(s, i, acc) ==
    LET val == JsonValue(s, i)
        e   == SkipWs(s, val.next)
    IN  IF ~val.ok THEN ParseFail
        ELSE IF CharAt(s, e) = "]" THEN Parsed(V("arr", <<>>, Append(acc, val.val)), e + 1)
        ELSE IF CharAt(s, e) = "," THEN JsonElements(s, SkipWs(s, e + 1), Append(acc, val.val))
        ELSE ParseFail

\* scan_once: the value that starts at i
JsonValue(s, i) ==
    IF CharAt(s, i) = "\"" THEN JsonString(s, i)
    ELSE IF CharAt(s, i) = "{"
         THEN IF CharAt(s, SkipWs(s, i + 1)) = "}"
              THEN Parsed(V("obj", <<>>, <<>>), SkipWs(s, i + 1) + 1)
              ELSE JsonMembers(s, SkipWs(s, i + 1), <<>>)
    ELSE IF CharAt(s, i) = "["
         THEN IF CharAt(s, SkipWs(s, i + 1)) = "]"
              THEN Parsed(V("arr", <<>>, <<>>), SkipWs(s, i + 1) + 1)
              ELSE JsonElements(s, SkipWs(s, i + 1), <<>>)
    ELSE IF HasAt(s, i, Word_null) THEN Parsed(V("null", <<>>, <<>>), i + Len(Word_null))
    ELSE IF HasAt(s, i, Word_true) THEN Parsed(V("true", <<>>, <<>>), i + Len(Word_true))
    ELSE IF HasAt(s, i, Word_false) THEN Parsed(V("false", <<>>, <<>>), i + Len(Word_false))
    ELSE IF JsonNumber(s, i).ok THEN JsonNumber(s, i)
    ELSE IF HasAt(s, i, Word_NaN) THEN Parsed(V("number", Word_NaN, <<>>), i + Len(Word_NaN))
    ELSE IF HasAt(s, i, Word_Infinity)
         THEN Parsed(V("number", Word_Infinity, <<>>), i + Len(Word_Infinity))
    ELSE IF HasAt(s, i, Word_NegInfinity)
         THEN Parsed(V("number", Word_NegInfinity, <<>>), i + Len(Word_NegInfinity))
    ELSE ParseFail

\* json.loads(s): one value between optional whitespace, nothing after it;
\* JSON null is Python's None
json_loads(s) ==
    LET r == JsonValue(s, SkipWs(s, 1))
    IN  IF r.ok /\ SkipWs(s, r.next) = Len(s) + 1
        THEN Parsed(IF r.val.kind = "null" THEN NoneVal ELSE r.val, Len(s) + 1)
        ELSE ParseFail

----------------------------------------------------------------------------
(* _strip_code_fences, _extract_first_json, _parse_json_strict *)

\* the backtick character (a TLA+ string cannot hold it)
Backtick == "<backtick>"
Fence == <<Backtick, Backtick, Backtick>>

\* str.splitlines() for the line breaks \n, \r\n, \r and \f
RECURSIVE SplitLines(_, _)
SplitLines(s, from) ==
    LET hits == {k \in from..Len(s) : s[k] \in {"\n", "\r", "\f"}}
        m    == MinOf(hits)
    IN  IF hits = {}
        THEN IF from <= Len(s) THEN <<Slice(s, from, Len(s))>> ELSE <<>>
        ELSE <<Slice(s, from, m - 1)>>
             \o SplitLines(s, IF s[m] = "\r" /\ CharAt(s, m + 1) = "\n" THEN m + 2 ELSE m + 1)

\* "\n".join(ls)
RECURSIVE JoinLines(_)
JoinLines(ls) ==
    IF ls = <<>> THEN <<>>
    ELSE IF Len(ls) = 1 THEN Head(ls)
    ELSE Head(ls) \o <<"\n">> \o JoinLines(Tail(ls))

strip_code_fences(t) ==
    IF t = <<>> THEN t
    ELSE LET u == Strip(t)
             lines == SplitLines(u, 1)
         IN  IF HasAt(u, 1, Fence) /\ Len(u) >= Len(Fence)
                /\ HasAt(u, Len(u) - Len(Fence) + 1, Fence)
             THEN Strip(JoinLines(Slice(lines, 2, Len(lines) - 1)))
             ELSE u

\* the scan of _extract_first_json from position i, with the index of the
\* first `{` seen (0 for None) and the depth counter `stack`; <<>> is None
RECURSIVE ExtractScan(_, _, _, _)
ExtractScan(s, i, start_idx, stack) ==
    IF i > Len(s) THEN <<>>
    ELSE IF s[i] = "{"
         THEN ExtractScan(s, i + 1, IF start_idx = 0 THEN i ELSE start_idx, stack + 1)
    ELSE IF s[i] = "}" /\ stack > 0
         THEN IF stack - 1 = 0 /\ start_idx # 0
              THEN Slice(s, start_idx, i)
              ELSE ExtractScan(s, i + 1, start_idx, stack - 1)
    ELSE ExtractScan(s, i + 1, start_idx, stack)

extract_first_json(t) == ExtractScan(t, 1, 0, 0)

\* the value an exception escaping a function is recorded as
RaisedVal == V("raised", <<>>, <<>>)

\* CandidateResult without the try/except around json.loads(candidate)
CandidateResult_uncaught(r) == IF r.ok THEN r.val ELSE RaisedVal

\* lines 137-140: the outcome of json.loads(candidate) under its try/except
CandidateResult(r) == IF r.ok THEN r.val ELSE NoneVal

\* _parse_json_strict(t): a JSON value, NoneVal, or RaisedVal if an exception escaped
parse_json_strict(t) ==
    IF t = <<>> THEN NoneVal
    ELSE LET s == strip_code_fences(t)
             candidate == extract_first_json(s)
         IN  IF json_loads(s).ok THEN json_loads(s).val
             ELSE IF candidate # <<>> THEN CandidateResult(json_loads(candidate))
             ELSE NoneVal

----------------------------------------------------------------------------
(* _fallback_precedents and _query_precedents *)

\* the characters of the model's strings in code point order
CodePoints == <<"\t", "\n", "\r", " ", ".", "0", "1", "2", "3", "4", "5", "6", "7", "8", "9",
                "A", "B", "C", "D", "E", "F", "G", "H", "I", "J", "K", "L", "M",
                "N", "O", "P", "Q", "R", "S", "T", "U", "V", "W", "X", "Y", "Z", "_",
                "a", "b", "c", "d", "e", "f", "g", "h", "i", "j", "k", "l", "m",
                "n", "o", "p", "q", "r", "s", "t", "u", "v", "w", "x", "y", "z">>

\* ord(c), up to an order-preserving renumbering
Ord(c) == CHOOSE k \in 1..Len(CodePoints) : CodePoints[k] = c

\* a > b for two str values: the first differing character decides, a
\* proper prefix is smaller
StrGreater(a, b) ==
    LET diff == {k \in 1..MinOf({Len(a), Len(b)}) : a[k] # b[k]}
    IN  IF diff = {} THEN Len(a) > Len(b)
        ELSE Ord(a[MinOf(diff)]) > Ord(b[MinOf(diff)])

\* str.lower()
LowerOf(c) == IF c \in Upper THEN CodePoints[Ord(c) + 27] ELSE c
ToLower(t) == [k \in 1..Len(t) |-> LowerOf(t[k])]

\* the class \w
WordChars == Upper \cup Lower \cup Digit \cup {"_"}

\* set(re.findall(r'\w+', t)): the maximal runs of word characters
Words(t) ==
    {Slice(t, i, RunEnd(t, i, WordChars)) :
        i \in {k \in 1..Len(t) : t[k] \in WordChars /\ CharAt(t, k - 1) \notin WordChars}}

\* lines 57-62: the (score, p) pairs in corpus order
Scored(clause_text, precedents) ==
    LET clause_words == Words(ToLower(clause_text))
    IN  [k \in 1..Len(precedents) |->
            [score |-> Cardinality(clause_words \cap Words(ToLower(precedents[k]))),
             p |-> precedents[k]]]

\* (score, p) > (score, p) for two tuples, comparing the scores only
TupleGreater_scoreonly(x, y) == x.score > y.score

\* x > y for two (score, p) tuples
TupleGreater(x, y) ==
    \/ x.score > y.score
    \/ x.score = y.score /\ StrGreater(x.p, y.p)

\* line 63, scored.sort(reverse=True): the arrangements of scored in which
\* no tuple is greater than one before it (list.sort yields one of them)
SortedDesc(scored) ==
    LET n     == Len(scored)
        perms == {f \in [1..n -> 1..n] : \A i, j \in 1..n : i # j => f[i] # f[j]}
    IN  {[k \in 1..n |-> scored[f[k]]] :
            f \in {g \in perms : \A i, j \in 1..n :
                                    i < j => ~TupleGreater(scored[g[j]], scored[g[i]])}}

\* t[:n] for n >= 0
Take(t, n) == Slice(t, 1, MinOf({n, Len(t)}))

\* line 64 without the test score > 0
FallbackPick_unfiltered(sorted, precedents, top_k) ==
    LET top == Take(sorted, top_k)
    IN  IF top # <<>> THEN [k \in 1..Len(top) |-> top[k].p] ELSE Take(precedents, top_k)

\* line 64 without the alternative precedents[:top_k]
FallbackPick_nodefault(sorted, precedents, top_k) ==
    LET hits == SelectSeq(Take(sorted, top_k), LAMBDA x : x.score > 0)
    IN  [k \in 1..Len(hits) |-> hits[k].p]

\* line 64: [p for score, p in scored[:top_k] if score > 0] or precedents[:top_k]
FallbackPick(sorted, precedents, top_k) ==
    LET hits == SelectSeq(Take(sorted, top_k), LAMBDA x : x.score > 0)
    IN  IF hits # <<>> THEN [k \in 1..Len(hits) |-> hits[k].p] ELSE Take(precedents, top_k)

\* what a call gives its caller: a list, or an exception
Returned(val) == [raised |-> FALSE, val |-> val]
Raised == [raised |-> TRUE, val |-> <<>>]

\* data/precedents.json as a call finds it: a list of strings, or a file
\* that is missing or does not hold a list of strings
Loaded(refs) == [ok |-> TRUE, refs |-> refs]
Unloadable == [ok |-> FALSE, refs |-> <<>>]

\* _fallback_precedents with no try/except around the load
fallback_precedents_uncaught(clause_text, top_k, corpus) ==
    IF clause_text = <<>> THEN {Returned(<<>>)}
    ELSE IF ~corpus.ok THEN {Raised}
    ELSE {Returned(FallbackPick(sorted, corpus.refs, top_k)) :
             sorted \in SortedDesc(Scored(clause_text, corpus.refs))}

\* _fallback_precedents: the outcomes of a call
fallback_precedents(clause_text, top_k, corpus) ==
    IF clause_text = <<>> THEN {Returned(<<>>)}
    ELSE IF ~corpus.ok THEN {Returned(<<>>)}
    ELSE {Returned(FallbackPick(sorted, corpus.refs, top_k)) :
             sorted \in SortedDesc(Scored(clause_text, corpus.refs))}

\* what collection.query does: it raises, or it answers with documents
StoreRaises == [raises |-> TRUE, docs |-> <<>>]
StoreAnswers(docs) == [raises |-> FALSE, docs |-> docs]

\* the collection object of lines 120-125: None, or a collection
NoCollection == <<>>
Collection == <<"collection">>

\* lines 121-125: _init_chroma_client returns a collection, returns
\* (None, None) on ImportError, or raises, which line 124 catches
SetupOutcomes == {"collection", "import_error", "raises"}
InitCollection(chroma, outcome) ==
    IF chroma /\ outcome = "collection" THEN Collection ELSE NoCollection

\* _query_precedents with no try/except around the query
query_precedents_uncaught(chroma, collection, store, clause_text, top_k, corpus) ==
    IF chroma /\ collection # NoCollection
    THEN IF store.raises THEN {Raised}
         ELSE {Returned(SelectSeq(store.docs, LAMBDA d : Strip(d) # <<>>))}
    ELSE fallback_precedents(clause_text, top_k, corpus)

\* _query_precedents: the outcomes of a call
query_precedents(chroma, collection, store, clause_text, top_k, corpus) ==
    IF chroma /\ collection # NoCollection /\ ~store.raises
    THEN {Returned(SelectSeq(store.docs, LAMBDA d : Strip(d) # <<>>))}
    ELSE fallback_precedents(clause_text, top_k, corpus)

----------------------------------------------------------------------------
(* The segmenter as a state machine *)

Piece_sentence == <<"a", ".">>
Piece_word == <<"c">>
Piece_space == <<" ">>
Piece_blank == <<"\n", "\n">>
Piece_heading == <<"S","e","c","t","i","o","n"," ","1",".">>
SegPieces == {Piece_sentence, Piece_word, Piece_space, Piece_blank, Piece_heading}

\* the documents tried: every concatenation of at most MaxPieces pieces
SegTexts == {Concat(ps) : ps \in UNION {[1..n -> SegPieces] : n \in 0..MaxPieces}}

\* the resolver not called
PrecIdle ==
    /\ pr_clause = <<>>
    /\ pr_top_k = 0
    /\ pr_corpus = Unloadable
    /\ pr_chroma = FALSE
    /\ pr_collection = NoCollection
    /\ pr_store = StoreRaises
    /\ pr_pc = "idle"
    /\ pr_ret = Returned(<<>>)
    /\ pr_fb1 = Returned(<<>>)
    /\ pr_fb2 = Returned(<<>>)

\* _normalize_whitespace not called
NormIdle ==
    /\ nz_text = <<>>
    /\ nz_once = <<>>
    /\ nz_twice = <<>>
    /\ nz_pc = "idle"

\* the parser at rest
ParseIdle ==
    /\ p_pre = <<>>
    /\ p_body = <<>>
    /\ p_post = <<>>
    /\ p_pc = "idle"
    /\ p_ret = NoneVal

\* send_email not called
EmailIdle ==
    /\ em_to = ""
    /\ em_key = FALSE
    /\ em_from = ""
    /\ em_owner = ""
    /\ em_smtp = [k \in {"host", "port", "user", "pass"} |-> FALSE]
    /\ em_pc = "idle"
    /\ em_resend_exc = [type |-> "", msg |-> <<>>]
    /\ em_exc = [type |-> "", msg |-> <<>>]
    /\ em_used = ""

\* the dashboard not running
DashIdle ==
    /\ st_page = "Main"
    /\ st_file = 0
    /\ st_tmp = 0
    /\ st_path = <<>>
    /\ st_text = 0
    /\ st_results = <<>>
    /\ st_selected = {}
    /\ st_last = 0
    /\ st_status = ""
    /\ st_rendered = {}
    /\ st_checked = {}
    /\ st_analyzed = FALSE
    /\ st_reset = FALSE

\* the clause workflow not running
FlowIdle ==
    /\ wf_queue0 = <<>>
    /\ wf_clauses = <<>>
    /\ wf_results = <<>>
    /\ wf_trace = <<>>
    /\ wf_key_set = FALSE
    /\ wf_chroma = FALSE
    /\ wf_pc = "idle"

OuterIdle == EmailIdle /\ DashIdle /\ FlowIdle

\* the orchestrator at rest
AnIdle ==
    /\ an_doc = <<>>
    /\ an_max_clauses = <<>>
    /\ an_key_set = FALSE
    /\ an_pc = "idle"
    /\ an_split = <<>>
    /\ an_clauses = <<>>
    /\ an_idx = 0
    /\ an_attempt = 0
    /\ an_slept = <<>>
    /\ an_parsed = NoneVal
    /\ an_error = FALSE
    /\ an_results = <<>>
    /\ an_trace = <<>>
    /\ an_calls = <<>>
    /\ an_writes = <<>>
    /\ an_trace0 = <<>>
    /\ an_chroma = FALSE
    /\ an_collection = NoCollection

SegInit ==
    /\ OuterIdle
    /\ NormIdle
    /\ PrecIdle
    /\ ParseIdle
    /\ AnIdle
    /\ text \in SegTexts \cup {NoneText}
    /\ min_len \in 0..MaxMinLen
    /\ max_len \in 1..MaxMaxLen
    /\ seg_pc = "normalize"
    /\ norm = <<>>
    /\ parts = <<>>
    /\ chunks = <<>>
    /\ clauses = <<>>
    /\ cid = 0

\* lines 86-91
SegNormalize ==
    /\ seg_pc = "normalize"
    /\ norm' = IF IsStr(text) THEN normalize_whitespace(text) ELSE norm
    /\ seg_pc' = IF ~IsStr(text) THEN "raised" ELSE IF norm' = <<>> THEN "done" ELSE "split"
    /\ UNCHANGED <<text, min_len, max_len, parts, chunks, clauses, cid, p_vars, an_vars, nz_vars, pr_vars, outer_vars>>

\* lines 95-132
SegSplit ==
    /\ seg_pc = "split"
    /\ parts' = BuildParts(norm)
    /\ seg_pc' = "loop"
    /\ UNCHANGED <<text, min_len, max_len, norm, chunks, clauses, cid, p_vars, an_vars, nz_vars, pr_vars, outer_vars>>

\* line 139: the next part is chunked
SegChunk ==
    /\ seg_pc = "loop"
    /\ chunks = <<>>
    /\ parts # <<>>
    /\ chunks' = chunk_long_clause(Head(parts), max_len)
    /\ parts' = Tail(parts)
    /\ UNCHANGED <<text, min_len, max_len, seg_pc, norm, clauses, cid, p_vars, an_vars, nz_vars, pr_vars, outer_vars>>

\* lines 140-163: the next chunk is merged or appended
SegClause ==
    /\ seg_pc = "loop"
    /\ chunks # <<>>
    /\ LET r == ClauseStep(clauses, cid, Head(chunks), min_len)
       IN  clauses' = r[1] /\ cid' = r[2]
    /\ chunks' = Tail(chunks)
    /\ UNCHANGED <<text, min_len, max_len, seg_pc, norm, parts, p_vars, an_vars, nz_vars, pr_vars, outer_vars>>

\* lines 165-169
SegFinal ==
    /\ seg_pc = "loop"
    /\ chunks = <<>>
    /\ parts = <<>>
    /\ clauses' = FinalPass(clauses, min_len)
    /\ seg_pc' = "done"
    /\ UNCHANGED <<text, min_len, max_len, norm, parts, chunks, cid, p_vars, an_vars, nz_vars, pr_vars, outer_vars>>

SegNext == SegNormalize \/ SegSplit \/ SegChunk \/ SegClause \/ SegFinal

SpecSeg == SegInit /\ [][SegNext]_vars

\* the document of the long-section example: two headed sections, a short
\* line between them and a last block of n characters X
Line_section1 == <<"S", "E", "C", "T", "I", "O", "N", " ", "1", " ", "D", "E", "F", "I", "N", "I", "T", "I", "O", "N", "S">>
Line_short == <<"T", "h", "i", "s", " ", "i", "s", " ", "a", " ", "s", "h", "o", "r", "t", " ", "l", "i", "n", "e", ".">>
Line_section2 == <<"S", "E", "C", "T", "I", "O", "N", " ", "2", " ", "T", "E", "R", "M">>
ExampleDoc(n) ==
    Line_section1 \o Piece_blank \o Line_short \o Piece_blank \o Line_section2
        \o Piece_blank \o [i \in 1..n |-> "X"]
ExampleDocs == {ExampleDoc(3000 + k) : k \in 0..MaxExampleExtra}

ExampleInit ==
    /\ OuterIdle
    /\ NormIdle
    /\ PrecIdle
    /\ ParseIdle
    /\ AnIdle
    /\ text \in ExampleDocs
    /\ min_len = DEFAULT_MIN_LEN
    /\ max_len = DEFAULT_MAX_LEN
    /\ seg_pc = "normalize"
    /\ norm = <<>>
    /\ parts = <<>>
    /\ chunks = <<>>
    /\ clauses = <<>>
    /\ cid = 0

SpecExample == ExampleInit /\ [][SegNext]_vars

\* documents whose lines begin with Section N or Clause N, with and without
\* a punctuation character after the number
Line_section_bare == <<"S","e","c","t","i","o","n"," ","1">>
Line_clause_bare == <<"C","l","a","u","s","e"," ","2","2">>
Piece_dot == <<".">>
Piece_eol == <<"\n">>
HeadPieces == {Line_section_bare, Line_clause_bare, Piece_dot, Piece_eol, Piece_word, Piece_space}
HeadTexts == {Concat(ps) : ps \in UNION {[1..n -> HeadPieces] : n \in 0..MaxHeadPieces}}

HeadInit ==
    /\ OuterIdle
    /\ NormIdle
    /\ PrecIdle
    /\ ParseIdle
    /\ AnIdle
    /\ text \in HeadTexts
    /\ min_len \in {0, DEFAULT_MIN_LEN}
    /\ max_len = DEFAULT_MAX_LEN
    /\ seg_pc = "normalize"
    /\ norm = <<>>
    /\ parts = <<>>
    /\ chunks = <<>>
    /\ clauses = <<>>
    /\ cid = 0

SpecHead == HeadInit /\ [][SegNext]_vars

\* the segmenter at rest
SegIdle ==
    /\ text = <<>>
    /\ min_len = 0
    /\ max_len = 0
    /\ seg_pc = "idle"
    /\ norm = <<>>
    /\ parts = <<>>
    /\ chunks = <<>>
    /\ clauses = <<>>
    /\ cid = 0

----------------------------------------------------------------------------
(* _normalize_whitespace applied once and twice *)

Piece_letter == <<"a">>
Piece_tab == <<"\t">>
Piece_lf == <<"\n">>
Piece_cr == <<"\r">>
NormPieces == {Piece_letter, Piece_space, Piece_tab, Piece_lf, Piece_cr}

\* the strings tried: every concatenation of at most MaxNormPieces pieces
NormTexts == {Concat(ps) : ps \in UNION {[1..n -> NormPieces] : n \in 0..MaxNormPieces}}

NormInit ==
    /\ OuterIdle
    /\ PrecIdle
    /\ SegIdle
    /\ ParseIdle
    /\ AnIdle
    /\ nz_text \in NormTexts
    /\ nz_once = <<>>
    /\ nz_twice = <<>>
    /\ nz_pc = "start"

\* s = _normalize_whitespace(s)
NormFirst ==
    /\ nz_pc = "start"
    /\ nz_once' = normalize_whitespace(nz_text)
    /\ nz_pc' = "once"
    /\ UNCHANGED <<nz_text, nz_twice, seg_vars, p_vars, an_vars, pr_vars, outer_vars>>

\* the result is normalized again
NormSecond ==
    /\ nz_pc = "once"
    /\ nz_twice' = normalize_whitespace(nz_once)
    /\ nz_pc' = "twice"
    /\ UNCHANGED <<nz_text, nz_once, seg_vars, p_vars, an_vars, pr_vars, outer_vars>>

NormNext == NormFirst \/ NormSecond

SpecNorm == NormInit /\ [][NormNext]_vars

----------------------------------------------------------------------------
(* The precedent resolver *)

Piece_upper == <<"B", " ">>
ClausePieces == {Piece_letter, Piece_upper, Piece_space}

\* the clause texts tried: every concatenation of at most MaxClausePieces pieces
PrecClauses ==
    {Concat(ps) : ps \in UNION {[1..n -> ClausePieces] : n \in 0..MaxClausePieces}}

Ref_a == <<"a">>
Ref_Ab == <<"A", " ", "b">>
Ref_c == <<"c">>
Refs == {Ref_a, Ref_Ab, Ref_c}

\* the corpora tried: a file that cannot be loaded, and every list of at
\* most MaxRefs references
Corpora == {Unloadable} \cup {Loaded(rs) : rs \in UNION {[1..n -> Refs] : n \in 0..MaxRefs}}

\* what the store is tried with: an exception, no document, a blank
\* document, a document
StoreOutcomes == {StoreRaises, StoreAnswers(<<>>), StoreAnswers(<<Piece_space>>),
                  StoreAnswers(<<Piece_space, Ref_c>>)}

PrecInit ==
    /\ OuterIdle
    /\ NormIdle
    /\ SegIdle
    /\ ParseIdle
    /\ AnIdle
    /\ pr_clause \in PrecClauses
    /\ pr_top_k \in 0..MaxTopK
    /\ pr_corpus \in Corpora
    /\ pr_chroma \in BOOLEAN
    /\ pr_collection = NoCollection
    /\ pr_store = StoreRaises
    /\ pr_pc = "setup"
    /\ pr_ret = Returned(<<>>)
    /\ pr_fb1 = Returned(<<>>)
    /\ pr_fb2 = Returned(<<>>)

\* analyze_document_text, lines 119-125
PrecSetup ==
    /\ pr_pc = "setup"
    /\ \E outcome \in SetupOutcomes : pr_collection' = InitCollection(pr_chroma, outcome)
    /\ pr_pc' = "query"
    /\ UNCHANGED <<pr_clause, pr_top_k, pr_corpus, pr_chroma, pr_store, pr_ret, pr_fb1, pr_fb2,
                   seg_vars, p_vars, an_vars, nz_vars, outer_vars>>

\* _query_precedents(collection, clause_text, top_k)
PrecQuery ==
    /\ pr_pc = "query"
    /\ \E store \in StoreOutcomes :
         /\ pr_store' = IF pr_chroma /\ pr_collection # NoCollection THEN store ELSE pr_store
         /\ pr_ret' \in query_precedents(pr_chroma, pr_collection, store,
                                         pr_clause, pr_top_k, pr_corpus)
    /\ pr_pc' = "queried"
    /\ UNCHANGED <<pr_clause, pr_top_k, pr_corpus, pr_chroma, pr_collection, pr_fb1, pr_fb2,
                   seg_vars, p_vars, an_vars, nz_vars, outer_vars>>

\* _fallback_precedents(clause_text, top_k)
PrecFallback ==
    /\ pr_pc = "queried"
    /\ pr_fb1' \in fallback_precedents(pr_clause, pr_top_k, pr_corpus)
    /\ pr_pc' = "once"
    /\ UNCHANGED <<pr_clause, pr_top_k, pr_corpus, pr_chroma, pr_collection, pr_store, pr_ret,
                   pr_fb2, seg_vars, p_vars, an_vars, nz_vars, outer_vars>>

\* _fallback_precedents(clause_text, top_k) again, the corpus unchanged
PrecFallbackAgain ==
    /\ pr_pc = "once"
    /\ pr_fb2' \in fallback_precedents(pr_clause, pr_top_k, pr_corpus)
    /\ pr_pc' = "twice"
    /\ UNCHANGED <<pr_clause, pr_top_k, pr_corpus, pr_chroma, pr_collection, pr_store, pr_ret,
                   pr_fb1, seg_vars, p_vars, an_vars, nz_vars, outer_vars>>

PrecNext == PrecSetup \/ PrecQuery \/ PrecFallback \/ PrecFallbackAgain

SpecPrec == PrecInit /\ [][PrecNext]_vars

----------------------------------------------------------------------------
(* The parser applied to model responses *)

Tok_open == <<"{">>
Tok_close == <<"}">>
Tok_key == <<"\"", "k", "\"", ":">>
Tok_one == <<"1">>
Tok_bracestr == <<"\"", "}", "\"">>
JsonTokens == {Tok_open, Tok_close, Tok_key, Tok_one, Tok_bracestr}

\* the bodies tried: every concatenation of at most MaxJsonTokens tokens
ParseBodies == {Concat(ts) : ts \in UNION {[1..n -> JsonTokens] : n \in 0..MaxJsonTokens}}

Words_lead == <<"x", " ">>
Words_trail == <<" ", "x">>
FenceLine == Fence \o <<"\n">>
FenceLineTagged == Fence \o <<"j", "s", "o", "n", "\n">>
FenceLineClose == <<"\n">> \o Fence

\* a body alone, between words, between fence lines, between bare fence
\* markers, and after an opening fence that is never closed
Wrappers == {<<<<>>, <<>>>>,
             <<Words_lead, <<>>>>, <<<<>>, Words_trail>>, <<Words_lead, Words_trail>>,
             <<FenceLine, FenceLineClose>>, <<FenceLineTagged, FenceLineClose>>,
             <<Fence, Fence>>, <<FenceLine, <<>>>>}

p_text == p_pre \o p_body \o p_post

ParseInit ==
    /\ OuterIdle
    /\ NormIdle
    /\ PrecIdle
    /\ SegIdle
    /\ AnIdle
    /\ \E w \in Wrappers : p_pre = w[1] /\ p_post = w[2]
    /\ p_body \in ParseBodies
    /\ p_pc = "call"
    /\ p_ret = NoneVal

ParseCall ==
    /\ p_pc = "call"
    /\ p_ret' = parse_json_strict(p_text)
    /\ p_pc' = "done"
    /\ UNCHANGED <<p_pre, p_body, p_post, seg_vars, an_vars, nz_vars, pr_vars, outer_vars>>

ParseNext == ParseCall

SpecParse == ParseInit /\ [][ParseNext]_vars



----------------------------------------------------------------------------
(* call_groq_chat and analyze_document_text *)

Key_risk_score == <<"r","i","s","k","_","s","c","o","r","e">>
Key_reasons == <<"r","e","a","s","o","n","s">>
Key_redline == <<"r","e","d","l","i","n","e">>
Str_llm_error == <<"l","l","m","_","e","r","r","o","r">>

\* whether the dict d has the key
HasKey(d, key) == \E k \in 1..Len(d.items) : d.items[k].txt = key

\* d[key], for a key the dict has
Get(d, key) == d.items[CHOOSE k \in 1..Len(d.items) : d.items[k].txt = key].items[1]

\* d.get(key, default)
GetOr(d, key, default) == IF HasKey(d, key) THEN Get(d, key) ELSE default

Number(digits) == V("number", digits, <<>>)

\* the degraded result with an empty list of reasons
DegradedAnalysis_noreason ==
    V("obj", <<>>, <<V("member", Key_risk_score, <<Number(<<"0">>)>>),
                     V("member", Key_reasons, <<V("arr", <<>>, <<>>)>>),
                     V("member", Key_redline, <<V("str", <<>>, <<>>)>>)>>)

\* {"risk_score": 0, "reasons": ["llm_error"], "redline": ""} (line 156)
DegradedAnalysis ==
    V("obj", <<>>, <<V("member", Key_risk_score, <<Number(<<"0">>)>>),
                     V("member", Key_reasons, <<V("arr", <<>>, <<V("str", Str_llm_error, <<>>)>>)>>),
                     V("member", Key_redline, <<V("str", <<>>, <<>>)>>)>>)

\* clauses[:max_clauses] one clause short
Truncate_short(cl, limit) ==
    IF limit = <<>> THEN cl
    ELSE Slice(cl, 1, IF limit[1] - 1 < Len(cl) THEN limit[1] - 1 ELSE Len(cl))

\* lines 117-118: clauses[:max_clauses] unless max_clauses is None
Truncate(cl, limit) ==
    IF limit = <<>> THEN cl
    ELSE Slice(cl, 1, IF limit[1] < Len(cl) THEN limit[1] ELSE Len(cl))

\* the response texts the model is tried with
Content_in_range == <<"{", "\"">> \o Key_risk_score \o <<"\"", ":", "3", "}">>
Content_out_of_range == <<"{", "\"">> \o Key_risk_score \o <<"\"", ":", "9", "}">>
Content_not_int == <<"{", "\"">> \o Key_risk_score \o <<"\"", ":", "\"", "3", "\"", "}">>
Content_no_key == <<"{", "}">>
Content_fenced == FenceLineTagged \o Content_in_range \o FenceLineClose
Content_list == <<"[", "3", "]">>
Content_prose == <<"n", "o">>
Contents == {Content_in_range, Content_out_of_range, Content_not_int, Content_no_key,
             Content_fenced, Content_list, Content_prose}

\* what one attempt of call_groq_chat can meet: requests.post raising,
\* raise_for_status raising, a response without content, a response with content
AttemptOutcomes ==
    {[kind |-> "network_error", content |-> <<>>],
     [kind |-> "http_error", content |-> <<>>],
     [kind |-> "no_content", content |-> <<>>]}
    \cup {[kind |-> "content", content |-> c] : c \in Contents}

\* lines 182-214: whether the attempt returns (the try block raises otherwise)
AttemptReturns(o) ==
    /\ o.kind = "content"
    /\ o.content # <<>>
    /\ parse_json_strict(o.content) # NoneVal
    /\ parse_json_strict(o.content).kind = "obj"

\* the documents analysed: paragraphs of DEFAULT_MIN_LEN characters and
\* single words, each followed by a blank line
Piece_para == [i \in 1..DEFAULT_MIN_LEN |-> IF i = DEFAULT_MIN_LEN THEN "." ELSE "a"]
DocPieces == {Piece_para \o Piece_blank, Piece_word \o Piece_blank}
AnDocs == {Concat(ps) : ps \in UNION {[1..n -> DocPieces] : n \in 0..MaxDocPieces}}


\* range(1, max_retries + 1): one attempt too few
Attempts_short(max_retries) == 1..max_retries

\* line 180: range(1, max_retries + 2)
Attempts(max_retries) == 1..(max_retries + 1)

\* groq_client.py line 26, in seconds
RETRY_DELAY == 1

\* time.sleep called after every failed attempt, the last one included
SleepAfter_everyfailure(attempt, max_retries) == <<RETRY_DELAY * attempt>>

\* lines 219-220: the calls of time.sleep that follow a failed attempt
SleepAfter(attempt, max_retries) ==
    IF attempt <= max_retries THEN <<RETRY_DELAY * attempt>> ELSE <<>>

\* _log_trace opening TRACE_FILE with mode "w"
log_trace_truncating(trace, entry, ok) ==
    [trace |-> IF ok THEN <<entry>> ELSE trace, raised |-> FALSE]

\* _log_trace with no try/except around the write
log_trace_uncaught(trace, entry, ok) ==
    [trace |-> IF ok THEN Append(trace, entry) ELSE trace, raised |-> ~ok]

\* _log_trace (lines 88-97): the file after the call, the write succeeding
\* (ok) or failing, and whether an exception leaves the call
log_trace(trace, entry, ok) ==
    [trace |-> IF ok THEN Append(trace, entry) ELSE trace, raised |-> FALSE]

\* a record written to TRACE_FILE by an earlier run
OldRecord == [clause_id |-> 0 - 1, clause_length |-> 0, error |-> FALSE, response |-> NoneVal,
              risk_score |-> NoneVal, precedents |-> <<>>]
PriorLog == <<OldRecord>>

\* the corpus and the store as the analysed clauses find them
AnCorpora == {Unloadable, Loaded(<<Ref_c>>)}
AnStoreOutcomes == {StoreRaises, StoreAnswers(<<Ref_c>>)}

AnInit ==
    /\ OuterIdle
    /\ SegIdle
    /\ NormIdle
    /\ PrecIdle
    /\ ParseIdle
    /\ an_doc \in AnDocs \cup {NoneText}
    /\ an_max_clauses \in {<<>>} \cup {<<n>> : n \in 1..MaxMaxClauses}
    /\ an_key_set \in BOOLEAN
    /\ an_chroma \in BOOLEAN
    /\ an_trace0 = PriorLog
    /\ an_trace = an_trace0
    /\ an_collection = NoCollection
    /\ an_pc = "start"
    /\ an_split = <<>>
    /\ an_clauses = <<>>
    /\ an_idx = 0
    /\ an_attempt = 0
    /\ an_slept = <<>>
    /\ an_parsed = NoneVal
    /\ an_error = FALSE
    /\ an_results = <<>>
    /\ an_calls = <<>>
    /\ an_writes = <<>>

\* lines 114-126: split_into_clauses raises ValueError for a text that is
\* not a str; no clause returns []; the collection is set up when
\* CHROMA_AVAILABLE
AnStart ==
    /\ an_pc = "start"
    /\ IF ~IsStr(an_doc)
       THEN /\ an_pc' = "raised"
            /\ UNCHANGED <<an_split, an_clauses, an_idx, an_collection>>
       ELSE /\ an_split' = split_into_clauses(an_doc, DEFAULT_MIN_LEN, DEFAULT_MAX_LEN)
            /\ an_clauses' = IF an_split' = <<>> THEN <<>>
                             ELSE Truncate(an_split', an_max_clauses)
            /\ an_idx' = 1
            /\ an_pc' = IF an_split' = <<>> THEN "done" ELSE "loop"
            /\ \E outcome \in SetupOutcomes :
                 an_collection' = IF an_split' = <<>> THEN an_collection
                                  ELSE InitCollection(an_chroma, outcome)
    /\ UNCHANGED <<an_doc, an_max_clauses, an_key_set, an_attempt, an_slept, an_parsed, an_error,
                   an_results, an_trace, an_calls, an_writes, an_trace0,
                   an_chroma, seg_vars, p_vars, nz_vars, pr_vars, outer_vars>>

\* lines 127-148 and the entry of call_groq_chat (lines 161-162, 179): a
\* clause with empty trimmed text is skipped; without GROQ_API_KEY the call
\* raises EnvironmentError at once, which line 155 catches
AnBeginClause ==
    /\ an_pc = "loop"
    /\ an_idx <= Len(an_clauses)
    /\ IF Strip(an_clauses[an_idx].text) = <<>>
       THEN /\ an_idx' = an_idx + 1
            /\ UNCHANGED <<an_pc, an_attempt, an_parsed, an_error, an_calls>>
       ELSE IF ~an_key_set \/ 1 \notin Attempts(MAX_RETRIES)
            THEN /\ an_parsed' = DegradedAnalysis
                 /\ an_error' = TRUE
                 /\ an_calls' = Append(an_calls, "failed")
                 /\ an_pc' = "finish"
                 /\ UNCHANGED <<an_idx, an_attempt>>
            ELSE /\ an_attempt' = 1
                 /\ an_error' = FALSE
                 /\ an_pc' = "attempt"
                 /\ UNCHANGED <<an_idx, an_parsed, an_calls>>
    /\ UNCHANGED <<an_doc, an_max_clauses, an_key_set, an_split, an_clauses, an_results,
                   an_trace, an_writes, an_trace0, an_chroma, an_slept,
                   an_collection, seg_vars, p_vars, nz_vars, pr_vars, outer_vars>>

\* one iteration of the retry loop (lines 180-223): the attempt returns the
\* parsed dict, or fails and is retried after a sleep, or is the last one
\* and RuntimeError is raised, which line 155 catches
AnAttempt ==
    /\ an_pc = "attempt"
    /\ \E o \in AttemptOutcomes :
         IF AttemptReturns(o)
         THEN /\ an_parsed' = parse_json_strict(o.content)
              /\ an_calls' = Append(an_calls, "ok")
              /\ an_pc' = "finish"
              /\ UNCHANGED <<an_attempt, an_error, an_slept>>
         ELSE /\ an_slept' = an_slept \o SleepAfter(an_attempt, MAX_RETRIES)
              /\ IF an_attempt + 1 \in Attempts(MAX_RETRIES)
                 THEN /\ an_attempt' = an_attempt + 1
                      /\ UNCHANGED <<an_pc, an_parsed, an_error, an_calls>>
                 ELSE /\ an_parsed' = DegradedAnalysis
                      /\ an_error' = TRUE
                      /\ an_calls' = Append(an_calls, "failed")
                      /\ an_pc' = "finish"
                      /\ UNCHANGED an_attempt
    /\ UNCHANGED <<an_doc, an_max_clauses, an_key_set, an_split, an_clauses, an_idx,
                   an_results, an_trace, an_writes, an_trace0, an_chroma,
                   an_collection, seg_vars, p_vars, nz_vars, pr_vars, outer_vars>>

\* lines 158-167: precedents, the trace record (the write succeeding or
\* failing), the result; an exception leaving _query_precedents or
\* _log_trace would leave analyze_document_text
AnFinish ==
    /\ an_pc = "finish"
    /\ \E clause_text \in {Strip(an_clauses[an_idx].text)} :
       \E store \in AnStoreOutcomes, corpus \in AnCorpora, written \in BOOLEAN :
       \E found \in query_precedents(an_chroma, an_collection, store, clause_text,
                                      DEFAULT_TOP_K, corpus) :
         LET clause == an_clauses[an_idx]
             entry  == [clause_id |-> clause.id,
                        clause_length |-> Len(clause_text),
                        error |-> an_error,
                        response |-> an_parsed,
                        risk_score |-> GetOr(an_parsed, Key_risk_score, Number(<<"0">>)),
                        precedents |-> found.val]
             result == [clause_id |-> clause.id,
                        clause |-> clause_text,
                        analysis |-> an_parsed,
                        precedents |-> found.val]
         IN  \E logged \in {log_trace(an_trace, entry, written)} :
             /\ an_trace' = IF found.raised THEN an_trace ELSE logged.trace
             /\ an_writes' = IF found.raised THEN an_writes ELSE Append(an_writes, written)
             /\ IF found.raised \/ logged.raised
                THEN /\ an_pc' = "raised"
                     /\ UNCHANGED <<an_results, an_idx>>
                ELSE /\ an_results' = Append(an_results, result)
                     /\ an_idx' = an_idx + 1
                     /\ an_pc' = "loop"
    /\ an_attempt' = 0
    /\ an_slept' = <<>>
    /\ UNCHANGED <<an_doc, an_max_clauses, an_key_set, an_split, an_clauses,
                   an_parsed, an_error, an_calls, an_trace0, an_chroma,
                   an_collection, seg_vars, p_vars, nz_vars, pr_vars, outer_vars>>

\* line 168
AnReturn ==
    /\ an_pc = "loop"
    /\ an_idx > Len(an_clauses)
    /\ an_pc' = "done"
    /\ UNCHANGED <<an_doc, an_max_clauses, an_key_set, an_split, an_clauses, an_idx,
                   an_attempt, an_slept, an_parsed, an_error, an_results, an_trace, an_calls,
                   an_writes, an_trace0, an_chroma,
                   an_collection, seg_vars, p_vars, nz_vars, pr_vars, outer_vars>>

AnNext == AnStart \/ AnBeginClause \/ AnAttempt \/ AnFinish \/ AnReturn

SpecAn == AnInit /\ [][AnNext]_vars

\* split_into_clauses called directly, or through analyze_document_text
InputInit == SegInit \/ AnInit

InputNext ==
    \/ SegNormalize \/ SegSplit \/ SegChunk \/ SegClause \/ SegFinal
    \/ AnStart \/ AnBeginClause \/ AnAttempt \/ AnFinish \/ AnReturn

SpecInput == InputInit /\ [][InputNext]_vars

----------------------------------------------------------------------------
(* Properties of the segmenter (SpecSeg) *)

NonWs(s) == SelectSeq(s, LAMBDA c : c \notin Whitespace)

RECURSIVE IsSubseq(_, _)
IsSubseq(a, b) ==
    IF a = <<>> THEN TRUE
    ELSE IF b = <<>> THEN FALSE
    ELSE IF Head(a) = Head(b) THEN IsSubseq(Tail(a), Tail(b))
    ELSE IsSubseq(a, Tail(b))

ClauseTexts(cl) == Concat([i \in 1..Len(cl) |-> cl[i].text])

\* C1: the ids of the returned clauses are exactly 0..N-1 in list order
C1_IdsContiguous ==
    seg_pc = "done" => \A i \in 1..Len(clauses) : clauses[i].id = i - 1

\* C2: every returned clause has its length field equal to the character
\* count of its text field
C2_LengthIsLenText ==
    seg_pc = "done" => \A i \in 1..Len(clauses) : clauses[i].length = Len(clauses[i].text)

\* C3: no returned clause has a text longer than max_len characters
C3_TextWithinMaxLen ==
    seg_pc = "done" => \A i \in 1..Len(clauses) : Len(clauses[i].text) <= max_len

\* C4 as claimed: every non-whitespace character of the normalized text
\* appears, in document order, in the text of some returned clause
C4_NoContentDeleted ==
    seg_pc = "done" => IsSubseq(NonWs(norm), NonWs(ClauseTexts(clauses)))

\* C4 as amended: the returned clause texts hold, in document order, every
\* non-whitespace character of the normalized text except those of a first
\* clause, shorter than min_len, that the final pass dropped; nothing is
\* missing when the first returned clause has id 0
C4_OnlyDroppedFirstClauseMissing ==
    seg_pc = "done" =>
        LET got  == NonWs(ClauseTexts(clauses))
            want == NonWs(norm)
        IN  /\ Len(got) <= Len(want)
            /\ got = Slice(want, Len(want) - Len(got) + 1, Len(want))
            /\ got # want => Len(want) - Len(got) < min_len /\ clauses # <<>>
            /\ (clauses # <<>> /\ clauses[1].id = 0) => got = want
            /\ norm # <<>> => clauses # <<>>

\* C4 witness: a finished run in which the first clause was dropped and a
\* short fragment was merged into a clause that is returned
C4_Witness ==
    /\ seg_pc = "done"
    /\ Len(clauses) >= 2
    /\ clauses[1].id = 1
    /\ \E i \in 1..Len(clauses) : Len(clauses[i].text) > clauses[i].length

\* the clauses of cl whose text is made of the character X only
BlockChunks(cl) == SelectSeq(cl, LAMBDA c : \A i \in 1..Len(c.text) : c.text[i] = "X")

\* C21: for the long-section example with min_len 40 and max_len 2000, at
\* least two clauses are returned, the block of X is split into at least two
\* chunks of at most 2000 characters that together hold the whole block, and
\* the short line is no clause of its own but follows the SECTION 1 line in
\* the first clause
C21_LongSectionExample ==
    (seg_pc = "done" /\ text \in ExampleDocs) =>
        /\ Len(clauses) >= 2
        /\ Len(BlockChunks(clauses)) >= 2
        /\ \A i \in 1..Len(BlockChunks(clauses)) :
             Len(BlockChunks(clauses)[i].text) <= DEFAULT_MAX_LEN
        /\ Len(ClauseTexts(BlockChunks(clauses)))
             = Len(SelectSeq(text, LAMBDA c : c = "X"))
        /\ \A i \in 1..Len(clauses) : clauses[i].text # Line_short
        /\ HasAt(clauses[1].text, 1, Line_section1 \o Piece_blank \o Line_short)
        /\ \A i \in 1..Len(clauses) : ~clauses[i].too_short

\* C21 witness: the example with its block of 3000 characters has been
\* segmented into the merged first clause and chunks of 2000 and 1000
\* characters
C21_Witness ==
    /\ seg_pc = "done"
    /\ text = ExampleDoc(3000)
    /\ Len(clauses) = 3
    /\ clauses[1].text = Line_section1 \o Piece_blank \o Line_short \o Piece_blank \o Line_section2
    /\ Len(clauses[2].text) = 2000
    /\ Len(clauses[3].text) = 1000

\* what C23 says of the step that handles one chunk c: when c is shorter
\* than min_len and a clause exists, no clause is created, the last clause's
\* text gains a blank line and c, and the earlier clauses stay as they
\* were; when c is shorter than min_len and no clause exists, c becomes the
\* first clause, flagged too_short; otherwise c becomes a new clause, not
\* flagged
C23_Step ==
    (seg_pc = "loop" /\ chunks # <<>>) =>
        LET c == Head(chunks)
            n == Len(clauses)
        IN  IF Len(c) < min_len /\ n > 0
            THEN /\ Len(clauses') = n
                 /\ cid' = cid
                 /\ clauses'[n].text = clauses[n].text \o <<"\n", "\n">> \o c
                 /\ clauses'[n].id = clauses[n].id
                 /\ \A i \in 1..(n - 1) : clauses'[i] = clauses[i]
            ELSE /\ Len(clauses') = n + 1
                 /\ cid' = cid + 1
                 /\ clauses'[n + 1].text = c
                 /\ clauses'[n + 1].too_short = (Len(c) < min_len)
                 /\ clauses'[n + 1].too_short => n = 0
                 /\ \A i \in 1..n : clauses'[i] = clauses[i]

\* C23: a chunk shorter than min_len is appended, after a blank line, to the
\* clause accepted last, whatever part that clause came from, and only a
\* short chunk met before any clause exists becomes a clause, flagged
\* too_short
C23_ShortChunkMerged == [][C23_Step]_vars

\* C23 witness: two heading blocks, cut into chunks of one character with
\* min_len 2; every part has been taken, and the first chunk of the second
\* block has just been appended to the only clause, which began in the
\* first block
C23_Witness ==
    /\ seg_pc = "loop"
    /\ min_len = 2 /\ max_len = 1
    /\ text = Piece_heading \o Piece_sentence \o Piece_blank \o Piece_heading
    /\ Len(HeadingStarts(norm, 1)) = 2
    /\ parts = <<>>
    /\ chunks = Tail(chunk_long_clause(Piece_heading, 1))
    /\ Len(clauses) = 1
    /\ clauses[1].too_short = FALSE
    /\ LET t == clauses[1].text
       IN  Slice(t, Len(t) - 2, Len(t)) = <<"\n", "\n", "S">>

\* what C24 says of a state: a clause flagged too_short is the one created
\* first (id 0) and stands first; the flag of every clause says whether its
\* text is shorter than min_len; a returned list of more than one clause
\* holds no flagged clause and no text shorter than min_len
C24_State ==
    /\ \A i \in 1..Len(clauses) :
         /\ clauses[i].too_short => i = 1 /\ clauses[i].id = 0
         /\ clauses[i].too_short = (Len(clauses[i].text) < min_len)
    /\ (seg_pc = "done" /\ Len(clauses) > 1) =>
         \A i \in 1..Len(clauses) :
             ~clauses[i].too_short /\ Len(clauses[i].text) >= min_len

\* what C24 says of the final pass: it drops nothing, or the first clause
\* only, and then that clause was flagged
C24_Step ==
    (seg_pc = "loop" /\ seg_pc' = "done") =>
        \/ clauses' = clauses
        \/ clauses # <<>> /\ clauses[1].too_short /\ clauses' = Tail(clauses)

\* C24: only the clause created first can be flagged too_short, the final
\* pass drops at most that clause, and a returned list of more than one
\* clause has every clause unflagged with a text of at least min_len
\* characters
C24_OnlyFirstTooShort == [](C24_State) /\ [][C24_Step]_vars

\* C24 witness: the first clause, flagged, was dropped by the final pass and
\* two or more clauses are returned
C24_Witness ==
    /\ seg_pc = "done"
    /\ min_len > 0
    /\ Len(clauses) >= 2
    /\ clauses[1].id = 1
    /\ \A i \in 1..Len(clauses) : ~clauses[i].too_short

\* a line begins at i with Section or Clause, whitespace and a run of digits
BeginsNumberedHeading(s, i) ==
    LET w  == IF HasAt(s, i, SectionWord) THEN Len(SectionWord)
              ELSE IF HasAt(s, i, ClauseWord) THEN Len(ClauseWord) ELSE 0
        ws == RunEnd(s, i + w, Whitespace)
    IN  /\ AtLineStart(s, i)
        /\ w > 0
        /\ ws >= i + w
        /\ ws < Len(s)
        /\ s[ws + 1] \in Digit
        /\ \A k \in (i + w)..ws : s[k] # "\n"

\* `parts` has just been built from the normalized text
PartsBuilt == seg_pc = "loop" /\ chunks = <<>> /\ clauses = <<>>

\* C26 as claimed: every line of the normalized text that begins with
\* Section N or Clause N is a split boundary, a part begins there, whether
\* or not a punctuation character follows the number
C26_NumberedHeadingSplits ==
    PartsBuilt =>
        \A i \in 1..Len(norm) :
            BeginsNumberedHeading(norm, i) =>
                \E k \in 1..Len(parts) : HasAt(norm, i, parts[k])

----------------------------------------------------------------------------
(* Properties of the parser (SpecParse) *)

IsObject(r) == r.ok /\ r.val.kind = "obj"

Commentary == {w \in Wrappers : w[1] \in {<<>>, Words_lead} /\ w[2] \in {<<>>, Words_trail}}
Fenced == {w \in Wrappers : w[1] \in {Fence, FenceLine, FenceLineTagged}
                            /\ w[2] \in {Fence, FenceLineClose}}

\* C8: _parse_json_strict never raises; it returns None for the empty
\* string and whenever both the parse of the fence-stripped text and the
\* parse of the first balanced-brace substring fail; a value it returns is
\* the result of one of these two parses
C8_NeverRaises ==
    p_pc = "done" =>
        LET s == strip_code_fences(p_text)
            candidate == extract_first_json(s)
        IN  /\ p_ret # RaisedVal
            /\ p_text = <<>> => p_ret = NoneVal
            /\ (~json_loads(s).ok /\ (candidate = <<>> \/ ~json_loads(candidate).ok))
                   => p_ret = NoneVal
            /\ p_ret # NoneVal =>
                   \/ json_loads(s).ok /\ p_ret = json_loads(s).val
                   \/ ~json_loads(s).ok /\ candidate # <<>> /\ p_ret = json_loads(candidate).val

\* C8 witness: the fence-stripped text does not parse, a balanced-brace
\* substring is found and does not parse either
C8_Witness ==
    /\ p_pc = "done"
    /\ ~json_loads(strip_code_fences(p_text)).ok
    /\ extract_first_json(strip_code_fences(p_text)) # <<>>
    /\ ~json_loads(extract_first_json(strip_code_fences(p_text))).ok
    /\ p_ret = NoneVal

\* C9: for a well-formed JSON object text, alone or enclosed in a pair of
\* triple-backtick fence markers, _parse_json_strict returns the object
C9_FenceRoundTrip ==
    (/\ p_pc = "done"
     /\ IsObject(json_loads(p_body))
     /\ <<p_pre, p_post>> \in Fenced \cup {<<<<>>, <<>>>>})
        => p_ret = json_loads(p_body).val

\* C10: for leading and/or trailing commentary around one JSON
\* object, _parse_json_strict returns that object, also when its string
\* values contain brace characters
C10_CommentaryRecovers ==
    (/\ p_pc = "done"
     /\ IsObject(json_loads(p_body))
     /\ <<p_pre, p_post>> \in Commentary)
        => p_ret = json_loads(p_body).val

\* C11: for every text that contains no brace character at all,
\* _parse_json_strict returns None
C11_NoBraceReturnsNull ==
    (/\ p_pc = "done"
     /\ \A k \in 1..Len(p_text) : p_text[k] \notin {"{", "}"})
        => p_ret = NoneVal

----------------------------------------------------------------------------
(* Properties of the orchestrator (SpecAn) *)

IsDigits(t) == t # <<>> /\ \A k \in 1..Len(t) : t[k] \in Digit

DigitValue(c) == CHOOSE n \in 0..9 : <<"0","1","2","3","4","5","6","7","8","9">>[n + 1] = c

RECURSIVE IntOf(_)
IntOf(t) == IF t = <<>> THEN 0 ELSE 10 * IntOf(Slice(t, 1, Len(t) - 1)) + DigitValue(t[Len(t)])

\* the clauses of cl whose trimmed text is not empty
Eligible(cl) == SelectSeq(cl, LAMBDA c : Strip(c.text) # <<>>)

\* C5: a clause whose model call failed unrecoverably still gets a result,
\* with risk_score 0, exactly one reason string and an empty redline; the
\* later clauses are processed and no exception reaches the caller
C5_DegradedResultOnFailure ==
    /\ IsStr(an_doc) => an_pc # "raised"
    /\ Len(an_calls) \in {Len(an_results), Len(an_results) + 1}
    /\ \A i \in 1..Len(an_results) :
         an_calls[i] = "failed" =>
            LET a == an_results[i].analysis
            IN  /\ a.kind = "obj"
                /\ HasKey(a, Key_risk_score) /\ Get(a, Key_risk_score) = Number(<<"0">>)
                /\ HasKey(a, Key_reasons) /\ Get(a, Key_reasons).kind = "arr"
                /\ Len(Get(a, Key_reasons).items) = 1
                /\ Get(a, Key_reasons).items[1].kind = "str"
                /\ HasKey(a, Key_redline) /\ Get(a, Key_redline) = V("str", <<>>, <<>>)
    /\ an_pc = "done" =>
         /\ Len(an_results) = Len(Eligible(an_clauses))
         /\ Len(an_calls) = Len(an_results)

\* C5 witness: a finished run of two clauses in which the call failed for
\* the first clause and succeeded for the second
C5_Witness ==
    /\ an_pc = "done"
    /\ Len(an_results) = 2
    /\ an_calls = <<"failed", "ok">>
    /\ an_results[1].analysis = DegradedAnalysis

\* C6 as claimed: exactly one result for each clause the segmenter produced
\* whose trimmed text is non-empty, in clause order, with that clause's id
C6_OneResultPerSegmentedClause ==
    an_pc = "done" =>
        /\ Len(an_results) = Len(Eligible(an_split))
        /\ \A i \in 1..Len(an_results) :
             /\ an_results[i].clause_id = Eligible(an_split)[i].id
             /\ an_results[i].clause = Strip(Eligible(an_split)[i].text)

\* C6 as amended: exactly one result for each of the first max_clauses
\* clauses the segmenter produced (all of them when max_clauses is None)
\* whose trimmed text is non-empty, in clause order, with that clause's id
\* and trimmed text; nothing for the clauses after the first max_clauses
C6_OneResultPerKeptClause ==
    an_pc = "done" =>
        LET n    == IF an_max_clauses = <<>> \/ an_max_clauses[1] > Len(an_split)
                    THEN Len(an_split) ELSE an_max_clauses[1]
            kept == Eligible(Slice(an_split, 1, n))
        IN  /\ Len(an_results) = Len(kept)
            /\ \A i \in 1..Len(an_results) :
                 /\ an_results[i].clause_id = kept[i].id
                 /\ an_results[i].clause = Strip(kept[i].text)

\* C6 witness: a finished run in which max_clauses cut the segmenter's
\* list and the one clause kept got its result although its call failed
C6_Witness ==
    /\ an_pc = "done"
    /\ an_max_clauses = <<1>>
    /\ Len(an_split) = 2
    /\ Len(an_results) = 1
    /\ an_calls = <<"failed">>

\* C7: every result carries a risk_score that is an integer in 0..5
C7_RiskScoreInRange ==
    \A i \in 1..Len(an_results) :
        LET a == an_results[i].analysis
        IN  /\ HasKey(a, Key_risk_score)
            /\ Get(a, Key_risk_score).kind = "number"
            /\ IsDigits(Get(a, Key_risk_score).txt)
            /\ IntOf(Get(a, Key_risk_score).txt) \in 0..5

\* the call of call_groq_chat for the current clause has ended
CallEnded == an_pc = "finish"

\* C12 as claimed: a call makes at most max_retries + 1 attempts and reports
\* failure only after max_retries + 1 attempts have failed
C12_FailureOnlyAfterAllAttempts ==
    /\ an_pc = "attempt" => an_attempt \in 1..(MAX_RETRIES + 1)
    /\ CallEnded => an_attempt <= MAX_RETRIES + 1
    /\ CallEnded /\ an_error => an_attempt = MAX_RETRIES + 1

\* what C12 says of a state when GROQ_API_KEY is set, and what holds when it
\* is not: the call fails before any attempt
C12_Attempts ==
    IF an_key_set
    THEN /\ an_pc = "attempt" => an_attempt \in 1..(MAX_RETRIES + 1)
         /\ CallEnded => an_attempt \in 1..(MAX_RETRIES + 1)
         /\ CallEnded /\ an_error => an_attempt = MAX_RETRIES + 1
         /\ CallEnded /\ ~an_error => an_parsed # NoneVal /\ an_parsed.kind = "obj"
    ELSE /\ an_pc # "attempt"
         /\ CallEnded => an_attempt = 0 /\ an_error

\* what C12 says of a step of the retry loop: an attempt that yields a parsed
\* object ends the call with the attempt count unchanged; before the last
\* attempt every other outcome leads to the next attempt; the last attempt's
\* failure ends the call in error
C12_Step ==
    an_pc = "attempt" =>
        \/ /\ an_pc' = "finish" /\ ~an_error'
           /\ an_attempt' = an_attempt
           /\ an_parsed'.kind = "obj"
        \/ /\ an_attempt <= MAX_RETRIES
           /\ an_pc' = "attempt" /\ an_attempt' = an_attempt + 1
           /\ an_calls' = an_calls
        \/ /\ an_attempt = MAX_RETRIES + 1
           /\ an_pc' = "finish" /\ an_error'
           /\ an_attempt' = an_attempt

\* C12, amended: with GROQ_API_KEY set a call makes between 1 and
\* max_retries + 1 attempts, stops at the first attempt that yields a parsed
\* JSON object, retries every failed attempt before the last and reports
\* failure only after max_retries + 1 failed attempts; without GROQ_API_KEY it
\* fails before any attempt
C12_RetryPolicy == [](C12_Attempts) /\ [][C12_Step]_vars

\* C12 witness: with the key set, the first call succeeded and the second has
\* just failed after max_retries + 1 attempts
C12_Witness ==
    /\ an_key_set
    /\ CallEnded
    /\ an_calls = <<"ok", "failed">>
    /\ an_error
    /\ an_attempt = MAX_RETRIES + 1

\* every write to TRACE_FILE made so far succeeded
SinkWorked == \A i \in 1..Len(an_writes) : an_writes[i]

\* the records of TRACE_FILE after those an earlier run left
NewRecords == SubSeq(an_trace, Len(an_trace0) + 1, Len(an_trace))

\* C17: the records the log held before the run stay as they were, at the
\* head of the log; when every write succeeds the run has appended exactly
\* one record per result, in the order of the results, carrying that
\* result's clause id, analysis and precedents and the error mark of a
\* failed call
C17_OneRecordPerResult ==
    /\ Len(an_trace) >= Len(an_trace0)
    /\ SubSeq(an_trace, 1, Len(an_trace0)) = an_trace0
    /\ Len(an_writes) = Len(an_results)
    /\ SinkWorked =>
         /\ Len(NewRecords) = Len(an_results)
         /\ \A i \in 1..Len(an_results) :
              /\ NewRecords[i].clause_id = an_results[i].clause_id
              /\ NewRecords[i].clause_length = Len(an_results[i].clause)
              /\ NewRecords[i].response = an_results[i].analysis
              /\ NewRecords[i].precedents = an_results[i].precedents
              /\ NewRecords[i].error = (an_calls[i] = "failed")

\* C17 witness: a finished run of two clauses, the first call failed, both
\* records written after the one record the log already held
C17_Witness ==
    /\ an_pc = "done"
    /\ an_trace0 # <<>>
    /\ an_calls = <<"failed", "ok">>
    /\ an_writes = <<TRUE, TRUE>>
    /\ Len(an_trace) = Len(an_trace0) + 2
    /\ an_trace[Len(an_trace0) + 1].error

\* what C18 says of a state: as many writes were tried as results exist, and
\* no exception has left analyze_document_text for a str document, whichever
\* writes failed; a finished run has a result for every kept clause
C18_State ==
    /\ Len(an_writes) = Len(an_results)
    /\ IsStr(an_doc) => an_pc # "raised"
    /\ an_pc = "done" => Len(an_results) = Len(Eligible(an_clauses))

\* what C18 says of the step that ends a clause: the result appended is built
\* from the clause, the analysis and the precedents alone, and the loop goes
\* on to the next clause, whether the write succeeded or failed; the file
\* gains the record when the write succeeded and stays as it was otherwise
C18_Step ==
    an_pc = "finish" =>
        /\ an_pc' = "loop"
        /\ an_idx' = an_idx + 1
        /\ Len(an_results') = Len(an_results) + 1
        /\ SubSeq(an_results', 1, Len(an_results)) = an_results
        /\ LET result == an_results'[Len(an_results')]
           IN  /\ result.clause_id = an_clauses[an_idx].id
               /\ result.clause = Strip(an_clauses[an_idx].text)
               /\ result.analysis = an_parsed
               /\ result.precedents \in {<<>>, <<Ref_c>>}
        /\ Len(an_writes') = Len(an_writes) + 1
        /\ ~an_writes'[Len(an_writes')] => an_trace' = an_trace
        /\ an_writes'[Len(an_writes')] => Len(an_trace') = Len(an_trace) + 1

\* C18: a failed write to TRACE_FILE is swallowed; the results are the same
\* whether each write succeeds or fails
C18_TraceFailureSwallowed == [](C18_State) /\ [][C18_Step]_vars

\* C18 witness: a finished run of two clauses whose first write failed and
\* whose second succeeded, with both results returned
C18_Witness ==
    /\ an_pc = "done"
    /\ an_writes = <<FALSE, TRUE>>
    /\ Len(an_results) = 2
    /\ Len(an_trace) = Len(an_trace0) + 1
    /\ an_trace[Len(an_trace)].clause_id = an_results[2].clause_id

\* C19: split_into_clauses and analyze_document_text raise when text is not
\* a str, before producing anything; for a str they never raise, and
\* analyze_document_text returns its list of results, one per model call,
\* whatever failed among the model calls, the store, the corpus and the
\* writes to TRACE_FILE
C19_OnlyInputErrorPropagates ==
    /\ ~IsStr(text) => seg_pc \in {"normalize", "raised"} /\ clauses = <<>>
    /\ IsStr(text) => seg_pc # "raised"
    /\ ~IsStr(an_doc) => an_pc \in {"start", "raised"} /\ an_results = <<>> /\ an_trace = an_trace0
    /\ IsStr(an_doc) => an_pc # "raised"
    /\ an_pc = "done" =>
         /\ Len(an_results) <= Len(an_clauses)
         /\ Len(an_calls) = Len(an_results)

\* C19 witness: analyze_document_text has returned two results for a str
\* document although every model call failed, the store raised, the corpus
\* could not be loaded and no record could be written
C19_Witness ==
    /\ IsStr(an_doc)
    /\ an_pc = "done"
    /\ an_chroma /\ an_collection # NoCollection
    /\ an_calls = <<"failed", "failed">>
    /\ an_writes = <<FALSE, FALSE>>
    /\ Len(an_results) = 2
    /\ \A i \in 1..2 : an_results[i].precedents = <<>>
    /\ an_trace = an_trace0

----------------------------------------------------------------------------
(* Properties of _normalize_whitespace (SpecNorm) *)

\* C20: whitespace normalization is idempotent: normalizing the normalized
\* string gives the normalized string
C20_NormalizeIdempotent ==
    nz_pc = "twice" => nz_twice = nz_once

\* C20 witness: a string with a carriage return and a run of blanks, which
\* the first normalization changed, normalized twice
C20_Witness ==
    /\ nz_pc = "twice"
    /\ nz_once # nz_text
    /\ Len(nz_once) >= 3
    /\ \E k \in 1..Len(nz_text) : nz_text[k] = "\r"
    /\ \E k \in 1..Len(nz_text) - 1 : nz_text[k] \in {" ", "\t"} /\ nz_text[k + 1] \in {" ", "\t"}

----------------------------------------------------------------------------
(* Properties of the precedent resolver (SpecPrec) *)

\* whether val is the references of positive score in descending score
\* order, cut to top_k, or, when no reference has a positive score, the
\* first top_k references of the corpus
IsTopK(val, clause_text, refs, top_k) ==
    LET sc  == Scored(clause_text, refs)
        pos == {k \in 1..Len(refs) : sc[k].score > 0}
    IN  IF pos = {} THEN val = Take(refs, top_k)
        ELSE /\ Len(val) = MinOf({top_k, Cardinality(pos)})
             /\ \E f \in [1..Len(val) -> pos] :
                  /\ \A i, j \in 1..Len(val) : i # j => f[i] # f[j]
                  /\ \A i \in 1..Len(val) : val[i] = refs[f[i]]
                  /\ \A i, j \in 1..Len(val) : i < j => sc[f[i]].score >= sc[f[j]].score
                  /\ \A k \in pos : \A i \in 1..Len(val) :
                        (\A j \in 1..Len(val) : f[j] # k) => sc[k].score <= sc[f[i]].score

\* C13 as claimed: for any clause text, any corpus that is a list of
\* strings and any top_k >= 0, _fallback_precedents returns at most top_k
\* references: those of positive score in descending score order, cut to
\* top_k, or the first top_k of the corpus when none scores above zero
C13_FallbackTopK ==
    (pr_pc \in {"once", "twice"} /\ pr_corpus.ok) =>
        /\ ~pr_fb1.raised
        /\ Len(pr_fb1.val) <= pr_top_k
        /\ IsTopK(pr_fb1.val, pr_clause, pr_corpus.refs, pr_top_k)

\* C13 as amended: the same for any non-empty clause text; for the empty
\* clause text _fallback_precedents returns the empty list
C13_FallbackTopKNonEmptyClause ==
    (pr_pc \in {"once", "twice"} /\ pr_corpus.ok) =>
        /\ ~pr_fb1.raised
        /\ Len(pr_fb1.val) <= pr_top_k
        /\ pr_clause # <<>> => IsTopK(pr_fb1.val, pr_clause, pr_corpus.refs, pr_top_k)
        /\ pr_clause = <<>> => pr_fb1.val = <<>>

\* C13 witness: two references score above zero, the second of the corpus
\* more than the first, and top_k = 1 keeps the second only
C13_Witness ==
    /\ pr_pc = "once"
    /\ pr_top_k = 1
    /\ pr_corpus = Loaded(<<Ref_a, Ref_Ab>>)
    /\ Scored(pr_clause, pr_corpus.refs)[1].score = 1
    /\ Scored(pr_clause, pr_corpus.refs)[2].score = 2
    /\ pr_fb1 = Returned(<<Ref_Ab>>)

\* whether the call of _query_precedents went to the keyword fallback
UsedFallback == ~pr_chroma \/ pr_collection = NoCollection \/ pr_store.raises

C15_FallbackDeterministic ==
    pr_pc = "twice" => pr_fb1 = pr_fb2

\* C15 witness: two different references tie in score and both calls
\* returned them in the same order, against the order of the corpus
C15_Witness ==
    /\ pr_pc = "twice"
    /\ pr_corpus = Loaded(<<Ref_Ab, Ref_a>>)
    /\ Scored(pr_clause, pr_corpus.refs)[1].score = Scored(pr_clause, pr_corpus.refs)[2].score
    /\ pr_fb1 = Returned(<<Ref_a, Ref_Ab>>)
    /\ pr_fb2 = Returned(<<Ref_a, Ref_Ab>>)

\* C16: no failure of the similarity store reaches the caller: with no
\* store configured, or when its set-up gave no collection, or when its
\* query raised, _query_precedents returns what _fallback_precedents
\* returns for that clause
C16_StoreFailureFallsBack ==
    /\ pr_pc \in {"queried", "once", "twice"} => ~pr_ret.raised
    /\ (pr_pc \in {"once", "twice"} /\ UsedFallback) => pr_ret = pr_fb1

\* C16 witness: the store's query raised and the fallback's references
\* were returned
C16_Witness ==
    /\ pr_pc = "once"
    /\ pr_chroma /\ pr_collection = Collection /\ pr_store.raises
    /\ pr_ret.val # <<>>
    /\ pr_ret = pr_fb1

----------------------------------------------------------------------------
(* Properties of the back-off of call_groq_chat (SpecAn) *)

\* the delays slept once attempts 1..k have failed and another one follows
Backoff(k) == [n \in 1..k |-> RETRY_DELAY * n]

C25_State ==
    IF an_pc \in {"attempt", "finish"} /\ an_attempt >= 1
    THEN an_slept = Backoff(an_attempt - 1)
    ELSE an_slept = <<>>

C25_Step ==
    (an_slept' # an_slept /\ an_slept' # <<>>)
        => /\ an_pc = "attempt" /\ an_pc' = "attempt"
           /\ an_attempt' = an_attempt + 1
           /\ an_slept' = Append(an_slept, RETRY_DELAY * an_attempt)

\* C25: in call_groq_chat the delay slept after the n-th failed attempt is
\* RETRY_DELAY * n; a delay is slept only in a step that goes from one attempt
\* to the next, so that a call which succeeded at attempt k, or failed at the
\* last attempt, has slept exactly the delays of attempts 1..k-1: nothing is
\* slept after the last failed attempt or after a successful one.
C25_LinearBackoff == [](C25_State) /\ [][C25_Step]_vars

\* a call that failed at every attempt, having slept after all but the last
C25_Witness ==
    /\ an_pc = "finish"
    /\ an_error
    /\ an_attempt = MAX_RETRIES + 1
    /\ an_slept = <<RETRY_DELAY, RETRY_DELAY * 2>>

----------------------------------------------------------------------------
(* send_email as a state machine (src/app/comm/email.py) *)

\* "Resend API key required (RESEND_API_KEY)."
Msg_key ==
    <<"R", "e", "s", "e", "n", "d", " ", "A", "P", "I", " ", "k", "e", "y", " ", "r", "e", "q",
      "u", "i", "r", "e", "d", " ", "(", "R", "E", "S", "E", "N", "D", "_", "A", "P", "I", "_",
      "K", "E", "Y", ")", ".">>

\* "Sender address required (RESEND_FROM_EMAIL)."
Msg_sender ==
    <<"S", "e", "n", "d", "e", "r", " ", "a", "d", "d", "r", "e", "s", "s", " ", "r", "e", "q",
      "u", "i", "r", "e", "d", " ", "(", "R", "E", "S", "E", "N", "D", "_", "F", "R", "O", "M",
      "_", "E", "M", "A", "I", "L", ")", ".">>

\* "Recipient address required."
Msg_recipient ==
    <<"R", "e", "c", "i", "p", "i", "e", "n", "t", " ", "a", "d", "d", "r", "e", "s", "s", " ",
      "r", "e", "q", "u", "i", "r", "e", "d", ".">>

\* "Using Resend onboarding sender requires setting RESEND_OWNER_EMAIL to your account email."
Msg_owner_unset ==
    <<"U", "s", "i", "n", "g", " ", "R", "e", "s", "e", "n", "d", " ", "o", "n", "b", "o", "a",
      "r", "d", "i", "n", "g", " ", "s", "e", "n", "d", "e", "r", " ", "r", "e", "q", "u", "i",
      "r", "e", "s", " ", "s", "e", "t", "t", "i", "n", "g", " ", "R", "E", "S", "E", "N", "D",
      "_", "O", "W", "N", "E", "R", "_", "E", "M", "A", "I", "L", " ", "t", "o", " ", "y", "o",
      "u", "r", " ", "a", "c", "c", "o", "u", "n", "t", " ", "e", "m", "a", "i", "l", ".">>

\* "Resend onboarding mode: recipient must be the account owner email set in RESEND_OWNER_EMAIL."
Msg_owner_mismatch ==
    <<"R", "e", "s", "e", "n", "d", " ", "o", "n", "b", "o", "a", "r", "d", "i", "n", "g", " ",
      "m", "o", "d", "e", ":", " ", "r", "e", "c", "i", "p", "i", "e", "n", "t", " ", "m", "u",
      "s", "t", " ", "b", "e", " ", "t", "h", "e", " ", "a", "c", "c", "o", "u", "n", "t", " ",
      "o", "w", "n", "e", "r", " ", "e", "m", "a", "i", "l", " ", "s", "e", "t", " ", "i", "n",
      " ", "R", "E", "S", "E", "N", "D", "_", "O", "W", "N", "E", "R", "_", "E", "M", "A", "I",
      "L", ".">>

\* "Resend request failed: "
Msg_request_failed ==
    <<"R", "e", "s", "e", "n", "d", " ", "r", "e", "q", "u", "e", "s", "t", " ", "f", "a", "i",
      "l", "e", "d", ":", " ">>

\* "Resend authentication failed (401). Check RESEND_API_KEY."
Msg_401 ==
    <<"R", "e", "s", "e", "n", "d", " ", "a", "u", "t", "h", "e", "n", "t", "i", "c", "a", "t",
      "i", "o", "n", " ", "f", "a", "i", "l", "e", "d", " ", "(", "4", "0", "1", ")", ".", " ",
      "C", "h", "e", "c", "k", " ", "R", "E", "S", "E", "N", "D", "_", "A", "P", "I", "_", "K",
      "E", "Y", ".">>

\* "Resend forbidden (403). Check API key permissions and sender verification."
Msg_403 ==
    <<"R", "e", "s", "e", "n", "d", " ", "f", "o", "r", "b", "i", "d", "d", "e", "n", " ", "(",
      "4", "0", "3", ")", ".", " ", "C", "h", "e", "c", "k", " ", "A", "P", "I", " ", "k", "e",
      "y", " ", "p", "e", "r", "m", "i", "s", "s", "i", "o", "n", "s", " ", "a", "n", "d", " ",
      "s", "e", "n", "d", "e", "r", " ", "v", "e", "r", "i", "f", "i", "c", "a", "t", "i", "o",
      "n", ".">>

\* "Resend API error "
Msg_api_error ==
    <<"R", "e", "s", "e", "n", "d", " ", "A", "P", "I", " ", "e", "r", "r", "o", "r", " ">>

\* ": "
Msg_colon ==
    <<":", " ">>

\* "SMTP authentication failed. Check username/password or app-password settings."
Msg_smtp_auth ==
    <<"S", "M", "T", "P", " ", "a", "u", "t", "h", "e", "n", "t", "i", "c", "a", "t", "i", "o",
      "n", " ", "f", "a", "i", "l", "e", "d", ".", " ", "C", "h", "e", "c", "k", " ", "u", "s",
      "e", "r", "n", "a", "m", "e", "/", "p", "a", "s", "s", "w", "o", "r", "d", " ", "o", "r",
      " ", "a", "p", "p", "-", "p", "a", "s", "s", "w", "o", "r", "d", " ", "s", "e", "t", "t",
      "i", "n", "g", "s", ".">>

\* "Unable to connect to SMTP server. Check host/port and network."
Msg_smtp_connect ==
    <<"U", "n", "a", "b", "l", "e", " ", "t", "o", " ", "c", "o", "n", "n", "e", "c", "t", " ",
      "t", "o", " ", "S", "M", "T", "P", " ", "s", "e", "r", "v", "e", "r", ".", " ", "C", "h",
      "e", "c", "k", " ", "h", "o", "s", "t", "/", "p", "o", "r", "t", " ", "a", "n", "d", " ",
      "n", "e", "t", "w", "o", "r", "k", ".">>

\* "SMTP send failed: "
Msg_smtp_failed ==
    <<"S", "M", "T", "P", " ", "s", "e", "n", "d", " ", "f", "a", "i", "l", "e", "d", ":", " ">>

\* "Both Resend and SMTP send failed. SMTP error: "
Msg_both_failed ==
    <<"B", "o", "t", "h", " ", "R", "e", "s", "e", "n", "d", " ", "a", "n", "d", " ", "S", "M",
      "T", "P", " ", "s", "e", "n", "d", " ", "f", "a", "i", "l", "e", "d", ".", " ", "S", "M",
      "T", "P", " ", "e", "r", "r", "o", "r", ":", " ">>

\* "Email sending failed: Resend not configured or failed, and SMTP fallback not available."
Msg_not_available ==
    <<"E", "m", "a", "i", "l", " ", "s", "e", "n", "d", "i", "n", "g", " ", "f", "a", "i", "l",
      "e", "d", ":", " ", "R", "e", "s", "e", "n", "d", " ", "n", "o", "t", " ", "c", "o", "n",
      "f", "i", "g", "u", "r", "e", "d", " ", "o", "r", " ", "f", "a", "i", "l", "e", "d", ",",
      " ", "a", "n", "d", " ", "S", "M", "T", "P", " ", "f", "a", "l", "l", "b", "a", "c", "k",
      " ", "n", "o", "t", " ", "a", "v", "a", "i", "l", "a", "b", "l", "e", ".">>

\* "403"
Word_403 ==
    <<"4", "0", "3">>

\* "forbidden"
Word_forbidden ==
    <<"f", "o", "r", "b", "i", "d", "d", "e", "n">>

\* "not verified"
Word_not_verified ==
    <<"n", "o", "t", " ", "v", "e", "r", "i", "f", "i", "e", "d">>

\* "verification"
Word_verification ==
    <<"v", "e", "r", "i", "f", "i", "c", "a", "t", "i", "o", "n">>

\* "onboarding"
Word_onboarding ==
    <<"o", "n", "b", "o", "a", "r", "d", "i", "n", "g">>

\* "owner"
Word_owner ==
    <<"o", "w", "n", "e", "r">>

\* "timed out"
Text_timed_out ==
    <<"t", "i", "m", "e", "d", " ", "o", "u", "t">>

\* "The domain is not verified"
Text_domain ==
    <<"T", "h", "e", " ", "d", "o", "m", "a", "i", "n", " ", "i", "s", " ", "n", "o", "t", " ",
      "v", "e", "r", "i", "f", "i", "e", "d">>

\* "server error"
Text_server ==
    <<"s", "e", "r", "v", "e", "r", " ", "e", "r", "r", "o", "r">>

\* "200"
Status_200 ==
    <<"2", "0", "0">>

\* "401"
Status_401 ==
    <<"4", "0", "1">>

\* "403"
Status_403 ==
    <<"4", "0", "3">>

\* "422"
Status_422 ==
    <<"4", "2", "2">>

\* "500"
Status_500 ==
    <<"5", "0", "0">>

\* an exception: its class and str(e)
Exc(type, msg) == [type |-> type, msg |-> msg]
NoExc == Exc("", <<>>)

\* `w in s` for two str values
Contains(s, w) == \E i \in 1..Len(s) : HasAt(s, i, w)

\* the addresses: none, Resend's onboarding sender, the account owner's
\* address, another address
NoAddress == ""
OnboardingSender == "onboarding@resend.dev"
Senders == {NoAddress, OnboardingSender, "sender"}
Recipients == {NoAddress, "owner", "other"}

\* what requests.post does (lines 61-87): it raises RequestException, or
\* answers with a status code and a body
HttpRaises(e) == [raises |-> TRUE, status |-> <<>>, text |-> e]
HttpAnswers(status, body) == [raises |-> FALSE, status |-> status, text |-> body]
HttpOutcomes ==
    {HttpRaises(Text_timed_out),
     HttpAnswers(Status_200, <<>>),
     HttpAnswers(Status_401, <<>>),
     HttpAnswers(Status_403, Text_domain),
     HttpAnswers(Status_422, Text_domain),
     HttpAnswers(Status_500, Text_server)}

\* send_email_resend (lines 17-87): the exception raised, NoExc for a dict
\* returned
send_email_resend(key, from, to, owner, http) ==
    IF ~key THEN Exc("ValueError", Msg_key)
    ELSE IF from = NoAddress THEN Exc("ValueError", Msg_sender)
    ELSE IF to = NoAddress THEN Exc("ValueError", Msg_recipient)
    ELSE IF from = OnboardingSender /\ owner = NoAddress
         THEN Exc("RuntimeError", Msg_owner_unset)
    ELSE IF from = OnboardingSender /\ owner # to
         THEN Exc("RuntimeError", Msg_owner_mismatch)
    ELSE IF http.raises THEN Exc("RuntimeError", Msg_request_failed \o http.text)
    ELSE IF Head(http.status) = "2" THEN NoExc
    ELSE IF http.status = Status_401 THEN Exc("RuntimeError", Msg_401)
    ELSE IF http.status = Status_403 THEN Exc("RuntimeError", Msg_403)
    ELSE Exc("RuntimeError", Msg_api_error \o http.status \o Msg_colon \o http.text)

\* lines 185-193: should_fallback, from str(e)
should_fallback(e) ==
    LET msg == ToLower(e.msg)
    IN  \/ Contains(msg, Word_403)
        \/ Contains(msg, Word_forbidden)
        \/ Contains(msg, Word_not_verified)
        \/ Contains(msg, Word_verification)
        \/ Contains(msg, Word_onboarding) /\ Contains(msg, Word_owner)

\* line 201
SmtpConfigured(smtp) == smtp["host"] /\ smtp["port"] /\ smtp["user"] /\ smtp["pass"]

\* send_email_smtp (lines 91-128): the exception raised, NoExc for a dict
\* returned
SmtpOutcomes ==
    {NoExc,
     Exc("RuntimeError", Msg_smtp_auth),
     Exc("RuntimeError", Msg_smtp_connect),
     Exc("RuntimeError", Msg_smtp_failed \o Text_timed_out)}

CoreIdle == SegIdle /\ ParseIdle /\ AnIdle /\ NormIdle /\ PrecIdle

EmailInit ==
    /\ CoreIdle
    /\ DashIdle
    /\ FlowIdle
    /\ em_to \in Recipients
    /\ em_key \in BOOLEAN
    /\ em_from \in Senders
    /\ em_owner \in {NoAddress, "owner"}
    /\ em_smtp \in [{"host", "port", "user", "pass"} -> BOOLEAN]
    /\ em_pc = "resend"
    /\ em_resend_exc = NoExc
    /\ em_exc = NoExc
    /\ em_used = ""

\* lines 156-198: Resend is tried when the key and the sender are set; its
\* exception is re-raised unless should_fallback
EmailResend ==
    /\ em_pc = "resend"
    /\ IF em_key /\ em_from # NoAddress
       THEN \E http \in HttpOutcomes :
              \E e \in {send_email_resend(em_key, em_from, em_to, em_owner, http)} :
                /\ em_resend_exc' = e
                /\ IF e = NoExc
                   THEN /\ em_used' = "resend"
                        /\ em_pc' = "returned"
                        /\ UNCHANGED em_exc
                   ELSE IF ~should_fallback(e)
                        THEN /\ em_exc' = e
                             /\ em_pc' = "raised"
                             /\ UNCHANGED em_used
                        ELSE /\ em_pc' = "smtp"
                             /\ UNCHANGED <<em_exc, em_used>>
       ELSE /\ em_pc' = "smtp"
            /\ UNCHANGED <<em_resend_exc, em_exc, em_used>>
    /\ UNCHANGED <<em_to, em_key, em_from, em_owner, em_smtp, st_vars, wf_vars,
                   seg_vars, p_vars, an_vars, nz_vars, pr_vars>>

\* lines 200-228: SMTP is tried when its four settings are there
EmailSmtp ==
    /\ em_pc = "smtp"
    /\ IF SmtpConfigured(em_smtp)
       THEN \E smtp_e \in SmtpOutcomes :
              IF smtp_e = NoExc
              THEN /\ em_used' = "smtp"
                   /\ em_pc' = "returned"
                   /\ UNCHANGED em_exc
              ELSE /\ em_exc' = Exc("RuntimeError", Msg_both_failed \o smtp_e.msg)
                   /\ em_pc' = "raised"
                   /\ UNCHANGED em_used
       ELSE /\ em_exc' = Exc("RuntimeError", Msg_not_available)
            /\ em_pc' = "raised"
            /\ UNCHANGED em_used
    /\ UNCHANGED <<em_to, em_key, em_from, em_owner, em_smtp, em_resend_exc, st_vars, wf_vars,
                   seg_vars, p_vars, an_vars, nz_vars, pr_vars>>

EmailNext == EmailResend \/ EmailSmtp

SpecEmail == EmailInit /\ [][EmailNext]_vars

\* C22: when the Resend attempt fails with an error that allows fallback and
\* SMTP is not fully configured, the exception that reaches the caller of
\* send_email is the original Resend error.
C22_ResendErrorReachesCaller ==
    (/\ em_pc = "raised"
     /\ em_resend_exc # NoExc
     /\ should_fallback(em_resend_exc)
     /\ ~SmtpConfigured(em_smtp))
        => em_exc = em_resend_exc

----------------------------------------------------------------------------
(* The workflow variant as a state machine
   (src/app/analyzer/clause_analysis_graph.py) *)

\* "The tenant shall pay the rent each month."
Clause_rent ==
    <<"T", "h", "e", " ", "t", "e", "n", "a", "n", "t", " ", "s", "h", "a", "l", "l", " ", "p",
      "a", "y", " ", "t", "h", "e", " ", "r", "e", "n", "t", " ", "e", "a", "c", "h", " ", "m",
      "o", "n", "t", "h", ".">>

\* "Either party may end the lease on notice."
Clause_notice ==
    <<"E", "i", "t", "h", "e", "r", " ", "p", "a", "r", "t", "y", " ", "m", "a", "y", " ", "e",
      "n", "d", " ", "t", "h", "e", " ", "l", "e", "a", "s", "e", " ", "o", "n", " ", "n", "o",
      "t", "i", "c", "e", ".">>

FlowTexts == {Clause_rent, Clause_notice}

\* line 16: the clauses as split_into_clauses numbers them
FlowQueue(ts) ==
    [k \in 1..Len(ts) |-> [id |-> k - 1, text |-> ts[k], length |-> Len(ts[k]),
                           too_short |-> Len(ts[k]) < DEFAULT_MIN_LEN]]

FlowQueues == {FlowQueue(ts) : ts \in UNION {[1..n -> FlowTexts] : n \in 0..MaxFlowClauses}}

\* line 38: top_k=3
FLOW_TOP_K == 3

\* what the model answers in the workflow
FlowResponses ==
    {[kind |-> "no_content", content |-> <<>>],
     [kind |-> "content", content |-> Content_in_range],
     [kind |-> "content", content |-> Content_prose]}

\* _init_chroma_client (analyze_document.py lines 25-42) inside a try/except
init_chroma_client_caught(chroma, outcome) ==
    [raised |-> FALSE, collection |-> InitCollection(chroma, outcome)]

\* _init_chroma_client (analyze_document.py lines 25-42) as line 37 calls
\* it: ImportError gives (None, None), any other exception leaves the call
init_chroma_client(chroma, outcome) ==
    [raised |-> chroma /\ outcome = "raises", collection |-> InitCollection(chroma, outcome)]

\* call_groq_chat_langchain (groq_client.py lines 43-86) inside the
\* try/except of lines 32-35: the dict returned, or the degraded result when
\* the key is missing, the content is empty, or it does not parse to an object
call_groq_chat_langchain(key_set, o) ==
    IF key_set /\ o.kind = "content" /\ o.content # <<>>
    THEN CHOOSE parsed \in {IF r # NoneVal /\ r.kind = "obj" THEN r ELSE DegradedAnalysis :
                                r \in {parse_json_strict(o.content)}} : TRUE
    ELSE DegradedAnalysis

FlowInit ==
    /\ CoreIdle
    /\ EmailIdle
    /\ DashIdle
    /\ wf_queue0 \in FlowQueues
    /\ wf_clauses = wf_queue0
    /\ wf_results = <<>>
    /\ wf_trace = <<>>
    /\ wf_key_set \in BOOLEAN
    /\ wf_chroma \in BOOLEAN
    /\ wf_pc = "analyze"

\* analyze_clause_node (lines 20-55)
FlowAnalyze ==
    /\ wf_pc = "analyze"
    /\ IF wf_clauses = <<>>
       THEN /\ wf_pc' = "check_done"
            /\ UNCHANGED <<wf_clauses, wf_results, wf_trace>>
       ELSE \E clause_text \in {Strip(Head(wf_clauses).text)} :
            \E o \in FlowResponses, outcome \in SetupOutcomes :
            \E store \in AnStoreOutcomes, corpus \in AnCorpora, written \in BOOLEAN :
            \E setup \in {init_chroma_client(wf_chroma, outcome)} :
            \E found \in query_precedents(wf_chroma, setup.collection, store, clause_text,
                                           FLOW_TOP_K, corpus) :
            \E parsed \in {call_groq_chat_langchain(wf_key_set, o)} :
              LET clause == Head(wf_clauses)
                  analysis_obj == [clause_id |-> clause.id,
                                   clause |-> clause_text,
                                   analysis |-> parsed,
                                   precedents |-> found.val]
                  entry == [clause_id |-> clause.id,
                            risk_score |-> GetOr(parsed, Key_risk_score, Number(<<"0">>))]
              IN  /\ wf_clauses' = Tail(wf_clauses)
                  /\ IF setup.raised \/ found.raised
                     THEN /\ wf_pc' = "raised"
                          /\ UNCHANGED <<wf_results, wf_trace>>
                     ELSE /\ wf_trace' = IF written THEN Append(wf_trace, entry) ELSE wf_trace
                          /\ wf_results' = Append(wf_results, analysis_obj)
                          /\ wf_pc' = "check_done"
    /\ UNCHANGED <<wf_queue0, wf_key_set, wf_chroma, em_vars, st_vars,
                   seg_vars, p_vars, an_vars, nz_vars, pr_vars>>

\* check_done_node (lines 58-59) and the edges of lines 67-69
FlowCheckDone ==
    /\ wf_pc = "check_done"
    /\ wf_pc' = IF wf_clauses = <<>> THEN "end" ELSE "analyze"
    /\ UNCHANGED <<wf_queue0, wf_clauses, wf_results, wf_trace, wf_key_set, wf_chroma,
                   em_vars, st_vars, seg_vars, p_vars, an_vars, nz_vars, pr_vars>>

FlowNext == FlowAnalyze \/ FlowCheckDone

SpecFlow == FlowInit /\ [][FlowNext]_vars

C28_State ==
    /\ Len(wf_clauses) + Len(wf_results) = Len(wf_queue0)
    /\ \A k \in 1..Len(wf_results) :
         /\ wf_results[k].clause_id = wf_queue0[k].id
         /\ wf_results[k].clause = Strip(wf_queue0[k].text)
    /\ wf_pc = "end" => wf_clauses = <<>>

C28_Step ==
    /\ (wf_pc = "analyze" /\ wf_clauses # <<>>)
          => /\ wf_clauses' = Tail(wf_clauses)
             /\ Len(wf_results') = Len(wf_results) + 1
             /\ wf_results'[Len(wf_results')].clause_id = Head(wf_clauses).id
    /\ (wf_pc = "analyze" /\ wf_clauses = <<>>)
          => (wf_clauses' = wf_clauses /\ wf_results' = wf_results)
    /\ wf_pc = "check_done"
          => /\ (wf_pc' = "end") <=> (wf_clauses = <<>>)
             /\ wf_clauses' = wf_clauses /\ wf_results' = wf_results

\* C28: each execution of analyze_clause_node on a non-empty queue removes
\* exactly the front clause from state["clauses"] and appends exactly one
\* result for it to state["results"], also when the model call fails, so
\* len(clauses) + len(results) stays constant and the results are in the
\* queue's original order; on an empty queue the state is left unchanged, and
\* check_done_node ends the workflow exactly when the queue is empty.
C28_QueueBecomesResults == [](C28_State) /\ [][C28_Step]_vars

----------------------------------------------------------------------------
(* The dashboard as a state machine (src/streamlit_app.py): one step is one
   run of the script, started by the user's action on a widget *)

\* st.session_state["uploaded_path"]: None, or the name of a temporary file,
\* which holds the bytes of the file it was written from
NoPath == <<>>
TmpPath(n, file) == <<[name |-> n, file |-> file]>>

\* what the user does to start a run
DashEvents ==
    {[kind |-> "upload", arg |-> f] : f \in 1..MaxFiles}
    \cup {[kind |-> "remove", arg |-> 0], [kind |-> "rerun", arg |-> 0]}
    \cup {[kind |-> "toggle", arg |-> c] : c \in 0..(MaxResults - 1)}
    \cup {[kind |-> "page", arg |-> 0]}

\* what analyze_document_text gives (lines 98-102): a list of results, here
\* their clause ids, or an exception
AnalysisOutcomes ==
    {[raised |-> TRUE, results |-> <<>>]}
    \cup {[raised |-> FALSE, results |-> [k \in 1..n |-> k - 1]] : n \in 0..MaxResults}

\* extract_text (line 84) raises, or gives the text of the file the path was
\* written from, or an empty text (uploaded.read() of line 73 gives no
\* bytes when the uploader hands over a file already read to its end)
ExtractOutcomes == {"raises", "text", "empty"}

\* line 93 with the test of last_analyzed_path left out
needs_analysis_results_only(results, last, path) == results = <<>>

\* line 93
needs_analysis(results, last, path) == results = <<>> \/ last # path[1].name

\* lines 131-161: the values the checkboxes return; a checkbox the last run
\* rendered keeps the state of its widget, or takes its `value` argument
\* again, a new one takes its `value` argument
CheckboxValues(rendered, widgets, selected, shown) ==
    {ticked \in SUBSET shown :
        \A c \in shown :
            (c \in ticked) \in
                (IF c \in rendered THEN {c \in widgets, c \in selected} ELSE {c \in selected})}

DashInit ==
    /\ CoreIdle
    /\ EmailIdle
    /\ FlowIdle
    /\ DashIdle

\* one run of the script (lines 37-161)
DashRun ==
    \E ev \in DashEvents :
    \E page \in {IF ev.kind = "page"
                 THEN (IF st_page = "Main" THEN "Traces" ELSE "Main") ELSE st_page} :
    \E uploaded \in {IF ev.kind = "upload" THEN ev.arg
                     ELSE IF ev.kind = "remove" THEN 0 ELSE st_file} :
    \E widgets \in {IF ev.kind = "toggle"
                    THEN (IF ev.arg \in st_checked THEN st_checked \ {ev.arg}
                          ELSE st_checked \cup {ev.arg})
                    ELSE st_checked} :
    \E tmp_ok \in BOOLEAN, extracted \in ExtractOutcomes, outcome \in AnalysisOutcomes :
      /\ ev.kind = "upload" => ev.arg # st_file
      /\ ev.kind = "remove" => st_file # 0
      /\ ev.kind = "toggle" => ev.arg \in st_rendered
      /\ uploaded # 0 => st_tmp < MaxUploads
      /\ st_page' = page
      /\ st_file' = uploaded
      \* lines 69-78
      /\ st_tmp' = IF uploaded # 0 /\ tmp_ok THEN st_tmp + 1 ELSE st_tmp
      /\ st_path' = IF uploaded # 0 /\ tmp_ok THEN TmpPath(st_tmp + 1, uploaded) ELSE st_path
      \* lines 82-114
      /\ IF st_path' = NoPath
         THEN /\ UNCHANGED <<st_text, st_results, st_last, st_status>>
              /\ st_analyzed' = FALSE
              /\ st_reset' = FALSE
         ELSE IF extracted = "raises"
         THEN /\ st_status' = "Extraction failed. See error above."
              /\ UNCHANGED <<st_text, st_results, st_last>>
              /\ st_analyzed' = FALSE
              /\ st_reset' = FALSE
         ELSE /\ st_text' = IF extracted = "text" THEN st_path'[1].file ELSE 0
              /\ IF ~needs_analysis(st_results, st_last, st_path')
                 THEN /\ UNCHANGED <<st_results, st_last, st_status>>
                      /\ st_analyzed' = FALSE
                      /\ st_reset' = FALSE
                 ELSE IF page # "Main" \/ outcome.raised
                 THEN \* max_clauses is bound only on the page "Main" (lines
                      \* 53-57): on "Traces" line 100 raises NameError
                      \* before the call
                      /\ st_results' = <<>>
                      /\ st_status' = "Analysis failed. See error above."
                      /\ st_analyzed' = (page = "Main")
                      /\ st_reset' = FALSE
                      /\ UNCHANGED st_last
                 ELSE /\ st_results' = outcome.results
                      /\ st_last' = st_path'[1].name
                      /\ st_status' = "Analysis complete. Review below."
                      /\ st_analyzed' = TRUE
                      /\ st_reset' = TRUE
      \* lines 121-161
      /\ \E cleared \in {IF st_reset' THEN {} ELSE st_selected} :
         \E shown \in {{st_results'[k] : k \in 1..Len(st_results')}} :
         \E ticked \in CheckboxValues(st_rendered, widgets, cleared, shown) :
           /\ st_rendered' = shown
           /\ st_checked' = ticked
           /\ st_selected' = (cleared \ shown) \cup ticked
      /\ UNCHANGED <<em_vars, wf_vars, seg_vars, p_vars, an_vars, nz_vars, pr_vars>>

DashNext == DashRun

SpecDash == DashInit /\ [][DashNext]_vars

C27_Step ==
    (st_file # 0 /\ st_file' = st_file /\ st_results # <<>>)
        => (~st_analyzed' /\ ~st_reset')

\* C27: in the dashboard, when the script reruns with the same uploaded file
\* still present and a non-empty list of results, analyze_document_text is not
\* invoked again and the set selected_for_email is not reset.
C27_AnalysedOncePerUpload == [][C27_Step]_vars

====
